---- MODULE Spec2Model ----
(***************************************************************************)
(* Reliability calculator: the system composition functions of             *)
(* reliability_math.py and reliability_core.py (r_series, r_parallel,      *)
(* r_k_of_n, lambda_from_reliability) and the root evaluation              *)
(* ReliabilityMainDialog._calculate_system of reliability_dialog.py over   *)
(* the block tree of block_editor.py.                                      *)
(*                                                                         *)
(* Numbers.  The code computes in Python floats.  The model computes in    *)
(* exact rationals [n, d] kept in lowest terms, so an equality of the      *)
(* model is an equality of the real-number values of the expressions the   *)
(* code evaluates, not of their rounded doubles.  -ln(R)/hours is kept as  *)
(* a symbolic term for 0 < R < 1.                                          *)
(***************************************************************************)
EXTENDS Integers, Sequences, FiniteSets, TLC

VARIABLES
    r_list,      \* argument r_list of the composition functions
    k_arg,       \* argument k of r_k_of_n
    mpc,         \* which function was last applied to (r_list, k_arg)
    res,         \* what it returned
    impl,        \* k-of-n run: "math" or "core"
    kstack,      \* k-of-n run: the call stack of r_k_of_n
    kret,        \* k-of-n run: the value last returned
    evals,       \* k-of-n run: the (n, k) activations entered, in order
    blocks,      \* editor.blocks: block id -> block
    root_group,  \* editor root id
    sheet_data,  \* dialog.sheet_data: sheet path -> {lambda, r}
    years,       \* settings_panel.years
    sys_out,     \* what _calculate_system last returned
    last_op,     \* the handler that ran last
    selected_block, \* editor.selected_block
    raised,      \* the exception the last editor call raised, or None
    gestures,    \* how many editor handlers have run
    editor_mission_hours \* editor.mission_hours

vars == <<r_list, k_arg, mpc, res, impl, kstack, kret, evals,
          blocks, root_group, sheet_data, years, sys_out, last_op,
          selected_block, raised, gestures, editor_mission_hours>>

mathVars == <<r_list, k_arg, mpc, res>>
runVars  == <<impl, kstack, kret, evals>>
treeVars == <<blocks, root_group, sheet_data, years, sys_out, last_op,
              selected_block, raised, gestures, editor_mission_hours>>

----------------------------------------------------------------------------
(* Bounds *)

\* longest list handed to the composition functions
MaxN == 4
\* input reliabilities are the multiples of 1/GridDen in [0, 1]
GridDen == 3
\* longest list of the step-by-step k-of-n run
MaxRunN == 6
\* sheet blocks on the diagram
MaxLeaves == 3
\* components on one sheet
MaxComponents == 1

MaxGroups == 3

MaxSheets == 2

MaxGestures == 8

MaxChildren == 4

----------------------------------------------------------------------------
(* Exact rational arithmetic standing for the float operators *, +, -, **  *)

RECURSIVE GCD(_, _)
GCD(a, b) == IF b = 0 THEN a ELSE GCD(b, a % b)

Abs(x) == IF x < 0 THEN -x ELSE x

Rat(n, d) ==
    LET g == GCD(Abs(n), d)
    IN  [n |-> n \div g, d |-> d \div g]

Zero == Rat(0, 1)
One  == Rat(1, 1)

RMul(a, b) == Rat(a.n * b.n, a.d * b.d)

RAdd(a, b) ==
    LET g == GCD(a.d, b.d)
        l == (a.d \div g) * b.d
    IN  Rat(a.n * (l \div a.d) + b.n * (l \div b.d), l)

RSub(a, b) == RAdd(a, [n |-> -b.n, d |-> b.d])

RLeq(a, b) == a.n * b.d <= b.n * a.d

RLt(a, b) == a.n * b.d < b.n * a.d

RECURSIVE RPow(_, _)
RPow(a, i) == IF i = 0 THEN One ELSE RMul(a, RPow(a, i - 1))

RECURSIVE comb(_, _)
comb(n, i) ==
    IF i < 0 \/ i > n THEN 0
    ELSE IF i = 0 THEN 1
    ELSE (comb(n, i - 1) * (n - i + 1)) \div i

RInt(i) == Rat(i, 1)

Grid == { Rat(i, GridDen) : i \in 0..GridDen }

\* r_list[:-1]
ButLast(s) == SubSeq(s, 1, Len(s) - 1)

\* r_list[-1]
Last(s) == s[Len(s)]

----------------------------------------------------------------------------
(* reliability_math.py: system reliability functions *)

\* the loop "result = 1.0; for r in r_list: result *= r" from index i on
RECURSIVE math_series_loop(_, _, _)
math_series_loop(rs, i, result) ==
    IF i > Len(rs) THEN result
    ELSE math_series_loop(rs, i + 1, RMul(result, rs[i]))

\* mutant: the product starts from 0.0
math_r_series_from_zero(rs) == math_series_loop(rs, 1, Zero)

math_r_series(rs) == math_series_loop(rs, 1, One)

\* the loop "p_fail = 1.0; for r in r_list: p_fail *= (1 - r)" from index i on
RECURSIVE math_parallel_loop(_, _, _)
math_parallel_loop(rs, i, p_fail) ==
    IF i > Len(rs) THEN p_fail
    ELSE math_parallel_loop(rs, i + 1, RMul(p_fail, RSub(One, rs[i])))

math_r_parallel(rs) == RSub(One, math_parallel_loop(rs, 1, One))

\* len(set(r_list)) == 1
AllIdentical(rs) == Cardinality({ rs[i] : i \in 1..Len(rs) }) = 1

\* the loop "for i in range(k, n + 1): result += comb(n, i) * r**i * (1-r)**(n-i)"
\* mutant: range(k, n) instead of range(k, n + 1)
RECURSIVE math_binomial_loop_short(_, _, _, _)
math_binomial_loop_short(r, n, i, result) ==
    IF i >= n THEN result
    ELSE math_binomial_loop_short(r, n, i + 1,
            RAdd(result, RMul(RMul(RInt(comb(n, i)), RPow(r, i)),
                              RPow(RSub(One, r), n - i))))

RECURSIVE math_binomial_loop(_, _, _, _)
math_binomial_loop(r, n, i, result) ==
    IF i > n THEN result
    ELSE math_binomial_loop(r, n, i + 1,
            RAdd(result, RMul(RMul(RInt(comb(n, i)), RPow(r, i)),
                              RPow(RSub(One, r), n - i))))

\* mutant: the guard is k < 0 instead of k < 1
RECURSIVE math_r_k_of_n_guard(_, _)
math_r_k_of_n_guard(rs, k) ==
    LET n == Len(rs)
    IN  IF k > n \/ k < 0 THEN Zero
        ELSE IF k = 1 THEN math_r_parallel(rs)
        ELSE IF k = n THEN math_r_series(rs)
        ELSE IF AllIdentical(rs) THEN math_binomial_loop(rs[1], n, k, Zero)
        ELSE LET r_n    == Last(rs)
                 r_rest == ButLast(rs)
             IN  RAdd(RMul(r_n, math_r_k_of_n_guard(r_rest, k - 1)),
                      RMul(RSub(One, r_n), math_r_k_of_n_guard(r_rest, k)))

RECURSIVE math_r_k_of_n(_, _)
math_r_k_of_n(rs, k) ==
    LET n == Len(rs)
    IN  IF k > n \/ k < 1 THEN Zero
        ELSE IF k = 1 THEN math_r_parallel(rs)
        ELSE IF k = n THEN math_r_series(rs)
        ELSE IF AllIdentical(rs) THEN math_binomial_loop(rs[1], n, k, Zero)
        ELSE LET r_n    == Last(rs)
                 r_rest == ButLast(rs)
             IN  RAdd(RMul(r_n, math_r_k_of_n(r_rest, k - 1)),
                      RMul(RSub(One, r_n), math_r_k_of_n(r_rest, k)))

----------------------------------------------------------------------------
(* reliability_core.py: system reliability functions *)

\* mutant: the loop stops one child early
RECURSIVE series_loop_short(_, _, _)
series_loop_short(rs, i, result) ==
    IF i >= Len(rs) THEN result
    ELSE series_loop_short(rs, i + 1, RMul(result, rs[i]))

RECURSIVE series_loop(_, _, _)
series_loop(rs, i, result) ==
    IF i > Len(rs) THEN result
    ELSE series_loop(rs, i + 1, RMul(result, rs[i]))

r_series(rs) == series_loop(rs, 1, One)

\* mutant: multiplies the reliabilities instead of their complements
RECURSIVE parallel_loop_no_complement(_, _, _)
parallel_loop_no_complement(rs, i, p_fail) ==
    IF i > Len(rs) THEN p_fail
    ELSE parallel_loop_no_complement(rs, i + 1, RMul(p_fail, rs[i]))

RECURSIVE parallel_loop(_, _, _)
parallel_loop(rs, i, p_fail) ==
    IF i > Len(rs) THEN p_fail
    ELSE parallel_loop(rs, i + 1, RMul(p_fail, RSub(One, rs[i])))

r_parallel(rs) == RSub(One, parallel_loop(rs, 1, One))

\* mutant: the expansion for three identical components, 3 r^2 (1-r) + r^3
two_of_three_identical(rs) ==
    LET r == rs[1]
    IN  RAdd(RMul(RInt(3), RMul(RPow(r, 2), RSub(One, r))), RPow(r, 3))

\* mutant: the last term pairs the first two children again
two_of_three_mirrored(rs) ==
    LET ra == rs[1]
        rb == rs[2]
        rc == rs[3]
        p_all == RMul(RMul(ra, rb), rc)
        p_ab  == RMul(RMul(ra, rb), RSub(One, rc))
        p_ac  == RMul(RMul(ra, RSub(One, rb)), rc)
        p_bc  == RMul(RMul(ra, RSub(One, rb)), rc)
    IN  RAdd(RAdd(RAdd(p_all, p_ab), p_ac), p_bc)

\* the hard-coded expansion for n == 3 and k == 2
two_of_three(rs) ==
    LET ra == rs[1]
        rb == rs[2]
        rc == rs[3]
        p_all == RMul(RMul(ra, rb), rc)
        p_ab  == RMul(RMul(ra, rb), RSub(One, rc))
        p_ac  == RMul(RMul(ra, RSub(One, rb)), rc)
        p_bc  == RMul(RMul(RSub(One, ra), rb), rc)
    IN  RAdd(RAdd(RAdd(p_all, p_ab), p_ac), p_bc)

\* mutant: the k == 1 and k == n results swapped
RECURSIVE r_k_of_n_swapped(_, _)
r_k_of_n_swapped(rs, k) ==
    LET n == Len(rs)
    IN  IF k > n \/ k < 1 THEN Zero
        ELSE IF k = 1 THEN r_series(rs)
        ELSE IF k = n THEN r_parallel(rs)
        ELSE IF n = 3 /\ k = 2 THEN two_of_three(rs)
        ELSE IF n = 1 THEN (IF k = 1 THEN rs[1] ELSE Zero)
        ELSE LET r_n    == Last(rs)
                 r_rest == ButLast(rs)
             IN  RAdd(RMul(r_n, r_k_of_n_swapped(r_rest, k - 1)),
                      RMul(RSub(One, r_n), r_k_of_n_swapped(r_rest, k)))

RECURSIVE r_k_of_n(_, _)
r_k_of_n(rs, k) ==
    LET n == Len(rs)
    IN  IF k > n \/ k < 1 THEN Zero
        ELSE IF k = 1 THEN r_parallel(rs)
        ELSE IF k = n THEN r_series(rs)
        ELSE IF n = 3 /\ k = 2 THEN two_of_three(rs)
        ELSE IF n = 1 THEN (IF k = 1 THEN rs[1] ELSE Zero)
        ELSE LET r_n    == Last(rs)
                 r_rest == ButLast(rs)
             IN  RAdd(RMul(r_n, r_k_of_n(r_rest, k - 1)),
                      RMul(RSub(One, r_n), r_k_of_n(r_rest, k)))

----------------------------------------------------------------------------
(* lambda_from_reliability of both modules.  A failure rate is a number,    *)
(* +infinity, the term -ln(r)/hours kept symbolic for 0 < r < 1, or the     *)
(* negative zero -0.0 that -math.log(1.0)/hours evaluates to.               *)

LamNum(v) == [kind |-> "num", v |-> v, hours |-> 0]

LamInf == [kind |-> "inf", v |-> Zero, hours |-> 0]

LamNegZero == [kind |-> "negzero", v |-> Zero, hours |-> 0]

LamNegLog(r, mission_hours) == [kind |-> "neglog", v |-> r, hours |-> mission_hours]

\* -math.log(r) / hours for r > 0 and hours > 0: math.log(1.0) is 0.0, so
\* its negation is -0.0 and so is the quotient
neg_log_over_hours(r, hours) ==
    IF r = One THEN LamNegZero ELSE LamNegLog(r, hours)

\* reliability_math.lambda_from_reliability
math_lambda_from_reliability(r, hours) ==
    IF RLeq(r, Zero) THEN LamInf
    ELSE IF RLeq(One, r) THEN LamNum(Zero)
    ELSE neg_log_over_hours(r, hours)

\* reliability_core.lambda_from_reliability
lambda_from_reliability(r, mission_hours) ==
    IF RLeq(r, Zero) \/ RLt(One, r)
    THEN (IF RLeq(r, Zero) THEN LamInf ELSE LamNum(Zero))
    ELSE neg_log_over_hours(r, mission_hours)

----------------------------------------------------------------------------
(* Component failure rates: reliability_core.calculate_component_lambda and  *)
(* reliability_math.calculate_lambda.  A class name is the sequence of its   *)
(* characters, so that str.lower() and the substring test `in` are computed. *)
(* A rate is a literal the code returns (in FIT, 1e-9 per hour), the value   *)
(* of a model formula, kept symbolic with the inputs it was computed from    *)
(* (a sum of products of positive table entries and exponentials, hence      *)
(* strictly positive and finite), or an exception that propagates.           *)

UpperCase == <<"A", "B", "C", "D", "E", "F", "G", "H", "I", "J", "K", "L", "M", "N", "O", "P", "Q", "R", "S", "T", "U", "V", "W", "X", "Y", "Z">>

LowerCase == <<"a", "b", "c", "d", "e", "f", "g", "h", "i", "j", "k", "l", "m", "n", "o", "p", "q", "r", "s", "t", "u", "v", "w", "x", "y", "z">>

\* str.lower()
lower(s) ==
    [i \in 1..Len(s) |->
        IF \E j \in 1..Len(UpperCase) : UpperCase[j] = s[i]
        THEN LowerCase[CHOOSE j \in 1..Len(UpperCase) : UpperCase[j] = s[i]]
        ELSE s[i]]

\* w in s, for strings
Contains(s, w) ==
    \E i \in 0..(Len(s) - Len(w)) : SubSeq(s, i + 1, i + Len(w)) = w

\* the words the dispatchers look for
Kw ==
    [ resistor |-> <<"r", "e", "s", "i", "s", "t", "o", "r">>,
      ceramic |-> <<"c", "e", "r", "a", "m", "i", "c">>,
      capacitor |-> <<"c", "a", "p", "a", "c", "i", "t", "o", "r">>,
      tantalum |-> <<"t", "a", "n", "t", "a", "l", "u", "m">>,
      electrolytic |-> <<"e", "l", "e", "c", "t", "r", "o", "l", "y", "t", "i", "c">>,
      transistor |-> <<"t", "r", "a", "n", "s", "i", "s", "t", "o", "r">>,
      power |-> <<"p", "o", "w", "e", "r">>,
      diode |-> <<"d", "i", "o", "d", "e">>,
      integrated_circuit |-> <<"i", "n", "t", "e", "g", "r", "a", "t", "e", "d", " ", "c", "i", "r", "c", "u", "i", "t">>,
      ic |-> <<"i", "c">>,
      mcu |-> <<"m", "c", "u">>,
      microcontroller |-> <<"m", "i", "c", "r", "o", "c", "o", "n", "t", "r", "o", "l", "l", "e", "r">>,
      fpga |-> <<"f", "p", "g", "a">>,
      inductor |-> <<"i", "n", "d", "u", "c", "t", "o", "r">>,
      converter |-> <<"c", "o", "n", "v", "e", "r", "t", "e", "r">>,
      dc_dc |-> <<"d", "c", "-", "d", "c">>,
      ldo |-> <<"l", "d", "o">>,
      regulator |-> <<"r", "e", "g", "u", "l", "a", "t", "o", "r">>,
      crystal |-> <<"c", "r", "y", "s", "t", "a", "l">>,
      oscillator |-> <<"o", "s", "c", "i", "l", "l", "a", "t", "o", "r">>,
      connector |-> <<"c", "o", "n", "n", "e", "c", "t", "o", "r">>,
      battery |-> <<"b", "a", "t", "t", "e", "r", "y">> ]

\* params.get(field, default)
Get(params, field, default) ==
    IF field \in DOMAIN params THEN params[field] ELSE default

\* float /, for a positive divisor
RDiv(a, b) == Rat(a.n * b.d, a.d * b.n)

RMax(a, b) == IF RLeq(a, b) THEN b ELSE a

RMin(a, b) == IF RLeq(a, b) THEN a ELSE b


Raises(exc) == [kind |-> "raise", exc |-> exc]

\* a literal rate, in FIT
FixedRate(fit) == [kind |-> "fixed", fit |-> fit]

\* the value of the model formula of function `of` on the inputs args
FormulaRate(of, args) == [kind |-> "formula", of |-> of, args |-> args]

\* math.exp(1740 * ((1 / 303) - (1 / (273 + t)))), kept symbolic
PiT(t) == [kind |-> "pi_t", t |-> t]


(* reliability_core.py: lookup tables, in FIT *)

DISCRETE_PACKAGE_PARAMS ==
    ("D2PACK, 3 pins" :> Rat(57, 10)) @@ ("SOT-23, 3 pins" :> One) @@
    ("SOD-123, 3 pins" :> One) @@ ("TO-220, 3 pins" :> Rat(57, 10)) @@
    ("DPACK, 6 pins" :> Rat(51, 10)) @@ ("TO-247, 3 pins" :> Rat(69, 10))

DIODE_BASE_RATES ==
    (<<"signal", "low">> :> Rat(7, 100)) @@ (<<"signal", "high">> :> Rat(7, 100)) @@
    (<<"recovery", "low">> :> Rat(1, 10)) @@ (<<"recovery", "high">> :> Rat(7, 10)) @@
    (<<"zener", "low">> :> Rat(4, 10)) @@ (<<"zener", "high">> :> Rat(7, 10)) @@
    (<<"transient", "low">> :> Rat(23, 10)) @@ (<<"transient", "high">> :> Rat(7, 10)) @@
    (<<"trigger", "low">> :> RInt(2)) @@ (<<"trigger", "high">> :> RInt(3)) @@
    (<<"gallium", "low">> :> Rat(3, 10)) @@ (<<"gallium", "high">> :> One) @@
    (<<"thyristors", "low">> :> One) @@ (<<"thyristors", "high">> :> RInt(3))

\* the keys of IC_DIE_PARAMS with their l2
IC_DIE_PARAMS ==
    ("MOS Standard, Digital circuits, 20000 transistors" :> Rat(17, 10)) @@
    ("MOS Standard, Digital circuits, 810 transistors" :> Rat(17, 10)) @@
    ("MOS Standard, Digital circuits, 2 gates" :> Rat(17, 10)) @@
    ("BICMOS, SRAM, Static Read Access Memory, 8-bit" :> Rat(88, 10)) @@
    ("MOS ASIC, Gate Arrays, 12 gates" :> RInt(10)) @@
    ("Bipolar, Linear/Digital circuit low voltage, 15 transistors" :> RInt(20)) @@
    ("BICMOS, linear/digital circuits, high voltage, 500 transistors" :> RInt(20)) @@
    ("Bipolar circuits, linear/digital circuits, high voltage, 5000 transistors" :> RInt(20)) @@
    ("BICMOS, linear/digital circuits, high voltage, 20 transistors" :> RInt(20)) @@
    ("BICMOS, linear/digital circuits, low voltage, 20 transistors" :> RInt(20))

\* the keys of IC_PACKAGE_PARAMS
IC_PACKAGE_PARAMS ==
    {"TSSOP, 16 pins", "TSOP I: 0.5mm pitch, 20 pins", "SO,SOP, 8 pins",
     "SO,SOP, 16 pins", "TQFP,10x10", "TQFP, 5x5", "PQFP, TQFP, 5x5"}

INDUCTOR_BASE_RATES ==
    (<<"inductor", "low fixed">> :> Rat(2, 10)) @@
    (<<"inductor", "low variable">> :> Rat(4, 10)) @@
    (<<"inductor", "Power Inductor">> :> Rat(6, 10)) @@
    (<<"transformer", "signal">> :> Rat(15, 10)) @@
    (<<"transformer", "power">> :> RInt(3))

\* table.get(key, default)
Lookup(table, key, default) ==
    IF key \in DOMAIN table THEN table[key] ELSE default

(* reliability_core.py: component lambda calculations *)

pi_thermal_resistor(t_ambient, op_power, rated_power) ==
    IF rated_power = Zero THEN Raises("ZeroDivisionError")
    ELSE PiT(RAdd(t_ambient, RMul(RInt(85), RDiv(op_power, rated_power))))

pi_thermal_inductor(t_ambient, power_loss, surface) ==
    IF surface = Zero THEN Raises("ZeroDivisionError")
    ELSE PiT(RAdd(t_ambient, RMul(Rat(82, 10), RDiv(power_loss, surface))))

\* the float 0.22 * exp(coef * s), kept as its two arguments
StressExp(coef, s) == [coef |-> coef, s |-> s]

\* pi_stress_transistor: the factors of the product it returns
pi_stress_transistor(transistor_type, v_ce, v_ce_max, v_ds, v_ds_max, v_gs, v_gs_max) ==
    IF transistor_type = "Bipolar"
    THEN LET s == IF RLt(Zero, v_ce_max) THEN RDiv(v_ce, v_ce_max) ELSE Zero
         IN  <<StressExp(Rat(17, 10), s)>>
    ELSE LET s1 == IF RLt(Zero, v_ds_max) THEN RDiv(v_ds, v_ds_max) ELSE Zero
             s2 == IF RLt(Zero, v_gs_max) THEN RDiv(v_gs, v_gs_max) ELSE Zero
         IN  <<StressExp(Rat(17, 10), s1), StressExp(RInt(3), s2)>>

lambda_resistor(p) ==
    LET pi_t == pi_thermal_resistor(p.t_ambient, p.operating_power, p.rated_power)
    IN  IF pi_t.kind = "raise" THEN pi_t
        ELSE FormulaRate("lambda_resistor", <<pi_t, p.n_cycles, p.delta_t>>)

lambda_capacitor(p) ==
    LET is_tantalum == (p.cap_type = "tantalum")
    IN  FormulaRate("lambda_capacitor",
                    <<is_tantalum, p.t_ambient, p.n_cycles, p.delta_t>>)

lambda_transistor(p) ==
    LET is_bipolar == (p.transistor_type = "Bipolar")
        l0  == IF p.power_class = "low" THEN Rat(75, 100) ELSE RInt(2)
        l_b == Lookup(DISCRETE_PACKAGE_PARAMS, p.package, One)
    IN  FormulaRate("lambda_transistor",
                    <<is_bipolar, l0, l_b, p.t_junction, p.n_cycles, p.delta_t>>)

lambda_diode(p) ==
    LET power_key == IF p.power_class = "low" THEN "low" ELSE "high"
        l0   == Lookup(DIODE_BASE_RATES, <<p.diode_type, power_key>>, Rat(1, 10))
        pi_u == IF p.diode_type = "thyristors" THEN 10 ELSE 1
        l_b  == Lookup(DISCRETE_PACKAGE_PARAMS, p.package, One)
    IN  FormulaRate("lambda_diode",
                    <<pi_u, l0, l_b, p.t_junction, p.n_cycles, p.delta_t>>)

lambda_ic(p) ==
    IF p.ic_type \notin DOMAIN IC_DIE_PARAMS THEN FixedRate(Zero)
    ELSE LET l3_known == p.package \in IC_PACKAGE_PARAMS
         IN  FormulaRate("lambda_ic",
                         <<IC_DIE_PARAMS[p.ic_type], l3_known, p.package,
                           p.t_junction, p.n_cycles, p.delta_t>>)

lambda_inductor(p) ==
    LET l0   == Lookup(INDUCTOR_BASE_RATES, <<"inductor", p.inductor_type>>, Rat(6, 10))
        pi_t == pi_thermal_inductor(p.t_ambient, p.power_loss, p.surface_area)
    IN  IF pi_t.kind = "raise" THEN pi_t
        ELSE FormulaRate("lambda_inductor", <<l0, pi_t, p.n_cycles, p.delta_t>>)

lambda_converter(p) ==
    LET l0 == IF RLt(p.power_rating, RInt(10)) THEN 100 ELSE 130
    IN  FormulaRate("lambda_converter", <<l0, p.n_cycles, p.delta_t>>)

lambda_battery == FixedRate(RInt(20))

\* calculate_component_lambda(component_class, params)
calculate_component_lambda(component_class, params) ==
    LET cls      == lower(component_class)
        n_cycles == Get(params, "n_cycles", 5256)
        delta_t  == Get(params, "delta_t", RInt(3))
        is_power == Contains(cls, Kw.power)
    IN  IF Contains(cls, Kw.resistor)
        THEN lambda_resistor(
                 [n_cycles |-> n_cycles, delta_t |-> delta_t,
                  t_ambient |-> Get(params, "t_ambient", RInt(25)),
                  operating_power |-> Get(params, "operating_power", Rat(1, 100)),
                  rated_power |-> Get(params, "rated_power", Rat(125, 1000))])
        ELSE IF Contains(cls, Kw.ceramic) /\ Contains(cls, Kw.capacitor)
        THEN lambda_capacitor(
                 [n_cycles |-> n_cycles, delta_t |-> delta_t,
                  t_ambient |-> Get(params, "t_ambient", RInt(25)),
                  cap_type |-> "ceramic"])
        ELSE IF Contains(cls, Kw.tantalum) /\ Contains(cls, Kw.capacitor)
        THEN lambda_capacitor(
                 [n_cycles |-> n_cycles, delta_t |-> delta_t,
                  t_ambient |-> Get(params, "t_ambient", RInt(25)),
                  cap_type |-> "tantalum"])
        ELSE IF Contains(cls, Kw.transistor)
        THEN lambda_transistor(
                 [n_cycles |-> n_cycles, delta_t |-> delta_t,
                  t_junction |-> Get(params, "t_junction", RInt(85)),
                  transistor_type |-> Get(params, "transistor_type", "MOS"),
                  power_class |-> IF is_power THEN "high" ELSE "low",
                  package |-> Get(params, "package", "SOT-23, 3 pins")])
        ELSE IF Contains(cls, Kw.diode)
        THEN lambda_diode(
                 [n_cycles |-> n_cycles, delta_t |-> delta_t,
                  t_junction |-> Get(params, "t_junction", RInt(85)),
                  diode_type |-> Get(params, "diode_type", "signal"),
                  power_class |-> IF is_power THEN "high" ELSE "low",
                  package |-> Get(params, "package", "SOD-123, 3 pins")])
        ELSE IF Contains(cls, Kw.integrated_circuit) \/ Contains(cls, Kw.ic)
        THEN lambda_ic(
                 [n_cycles |-> n_cycles, delta_t |-> delta_t,
                  t_junction |-> Get(params, "t_junction", RInt(85)),
                  ic_type |-> Get(params, "ic_type",
                      "MOS Standard, Digital circuits, 20000 transistors"),
                  package |-> Get(params, "package", "TQFP,10x10")])
        ELSE IF Contains(cls, Kw.inductor)
        THEN lambda_inductor(
                 [n_cycles |-> n_cycles, delta_t |-> delta_t,
                  t_ambient |-> Get(params, "t_ambient", RInt(25)),
                  power_loss |-> Get(params, "power_loss", Rat(1, 10)),
                  surface_area |-> Get(params, "surface_area", RInt(100)),
                  inductor_type |-> Get(params, "inductor_type", "Power Inductor")])
        ELSE IF Contains(cls, Kw.converter)
        THEN lambda_converter(
                 [n_cycles |-> n_cycles, delta_t |-> delta_t,
                  power_rating |-> Get(params, "power_rating", RInt(5))])
        ELSE IF Contains(cls, Kw.battery)
        THEN lambda_battery
        ELSE FixedRate(Zero)

(* reliability_math.py: the component functions as calculate_lambda calls    *)
(* them, every argument it does not pass at its default                      *)

\* the CAPACITOR_PARAMS entries calculate_lambda names: their l0
CAPACITOR_PARAMS ==
    ("Ceramic Class II (X7R/X5R)" :> Rat(15, 100)) @@
    ("Tantalum Solid" :> Rat(4, 10)) @@
    ("Aluminum Electrolytic (Non-Solid)" :> Rat(13, 10))

\* the MISC_COMPONENT_RATES entries calculate_lambda names
MISC_COMPONENT_RATES ==
    ("Crystal Oscillator (XO)" :> RInt(10)) @@
    ("Connector (per contact)" :> Rat(5, 10)) @@
    ("DC-DC Converter (<10W)" :> RInt(100))

math_lambda_resistor(t_ambient, operating_power, rated_power, n_cycles, delta_t) ==
    LET power_ratio == RDiv(operating_power, RMax(rated_power, Rat(1, 1000000)))
        t_resistor  == RAdd(t_ambient, RMul(RInt(55), power_ratio))
    IN  FormulaRate("lambda_resistor",
                    <<Rat(1, 100), PiT(t_resistor), n_cycles, delta_t>>)

math_lambda_capacitor(capacitor_type, t_ambient, n_cycles, delta_t) ==
    FormulaRate("lambda_capacitor",
                <<Lookup(CAPACITOR_PARAMS, capacitor_type,
                         CAPACITOR_PARAMS["Ceramic Class II (X7R/X5R)"]),
                  t_ambient, n_cycles, delta_t>>)

\* pi_s of reliability_math.lambda_transistor, for the technology of its
\* base-rate entry
math_pi_s(tech, voltage_stress_vce, voltage_stress_vds, voltage_stress_vgs) ==
    IF tech = "bipolar"
    THEN LET s == RMin(voltage_stress_vce, One)
         IN  <<StressExp(Rat(17, 10), s)>>
    ELSE LET s1 == RMin(voltage_stress_vds, One)
             s2 == RMin(voltage_stress_vgs, One)
         IN  <<StressExp(Rat(17, 10), s1), StressExp(RInt(3), s2)>>

math_lambda_transistor(t_junction, n_cycles, delta_t) ==
    FormulaRate("lambda_transistor", <<Rat(75, 100), t_junction, n_cycles, delta_t>>)

math_lambda_diode(t_junction, n_cycles, delta_t) ==
    FormulaRate("lambda_diode", <<Rat(7, 100), t_junction, n_cycles, delta_t>>)

math_lambda_integrated_circuit(ic_type, t_junction, n_cycles, delta_t) ==
    FormulaRate("lambda_integrated_circuit", <<ic_type, t_junction, n_cycles, delta_t>>)

math_lambda_inductor(t_ambient, n_cycles, delta_t) ==
    LET surface_dm2 == RDiv(RInt(100), RInt(10000))
        t_rise == RMul(Rat(82, 10), RDiv(Rat(1, 10), RMax(surface_dm2, Rat(1, 100))))
    IN  FormulaRate("lambda_inductor",
                    <<Rat(6, 10), PiT(RAdd(t_ambient, t_rise)), n_cycles, delta_t>>)

math_lambda_misc_component(component_type, n_contacts, n_cycles, delta_t) ==
    LET base_rate == Lookup(MISC_COMPONENT_RATES, component_type, RInt(10))
    IN  FormulaRate("lambda_misc_component",
                    <<IF component_type = "Connector (per contact)"
                      THEN RMul(base_rate, RInt(n_contacts)) ELSE base_rate,
                      n_cycles, delta_t>>)

\* the float x * 1e-9, kept as its count of 1e-9
Nano(x) == [nano |-> x]

\* INTERFACE_EOS_VALUES: pi_i * l_eos of the entry
INTERFACE_EOS_VALUES ==
    ("Not Interface" :> Zero) @@ ("Computer" :> RInt(10)) @@ ("Avionics" :> RInt(20))

\* the dictionary lambda_integrated_circuit returns, from the die base rate
\* (l1 * N * year_factor + l2), pi_t and the package rate it has computed
math_ic_result(die_base, pi_t, lambda_package, is_interface, interface_type, w_on) ==
    LET lambda_die == RMul(RMul(die_base, pi_t), w_on)
        lambda_eos == IF is_interface
                      THEN Lookup(INTERFACE_EOS_VALUES, interface_type, Zero)
                      ELSE Zero
    IN  [model |-> "lambda_integrated_circuit",
         contributions |-> <<Nano(lambda_die), Nano(lambda_package), Nano(lambda_eos)>>,
         lambda_total |-> Nano(RAdd(RAdd(lambda_die, lambda_package), lambda_eos)),
         fit_total |-> RAdd(RAdd(lambda_die, lambda_package), lambda_eos)]

\* the dictionary lambda_resistor returns, from l0, pi_t and pkg_factor
math_resistor_result(l0, n_resistors, pi_t, pkg_factor, w_on) ==
    LET l0_effective == RMul(l0, RInt(n_resistors))
        lambda_base == RMul(RMul(l0_effective, pi_t), w_on)
        lambda_package == RMul(l0_effective, pkg_factor)
    IN  [model |-> "lambda_resistor",
         contributions |-> <<Nano(lambda_base), Nano(lambda_package)>>,
         lambda_total |-> Nano(RAdd(lambda_base, lambda_package)),
         fit_total |-> RAdd(lambda_base, lambda_package)]

\* the dictionary lambda_misc_component returns: it names no contribution
math_misc_result(component_type, n_contacts, pkg_factor, w_on) ==
    LET rate == Lookup(MISC_COMPONENT_RATES, component_type, RInt(10))
        base_rate == IF component_type = "Connector (per contact)"
                     THEN RMul(rate, RInt(n_contacts)) ELSE rate
    IN  [model |-> "lambda_misc_component",
         contributions |-> <<>>,
         lambda_total |-> Nano(RMul(RMul(base_rate, RAdd(One, pkg_factor)), w_on)),
         fit_total |-> RMul(base_rate, RAdd(One, pkg_factor))]

\* reliability_math.calculate_lambda(component_class, params)
math_calculate_lambda(component_class, params) ==
    LET cls      == lower(component_class)
        n_cycles == Get(params, "n_cycles", 5256)
        delta_t  == Get(params, "delta_t", RInt(3))
    IN  IF Contains(cls, Kw.resistor)
        THEN math_lambda_resistor(Get(params, "t_ambient", RInt(25)),
                                  Get(params, "operating_power", Rat(1, 100)),
                                  Get(params, "rated_power", Rat(125, 1000)),
                                  n_cycles, delta_t)
        ELSE IF Contains(cls, Kw.ceramic) /\ Contains(cls, Kw.capacitor)
        THEN math_lambda_capacitor("Ceramic Class II (X7R/X5R)",
                                   Get(params, "t_ambient", RInt(25)), n_cycles, delta_t)
        ELSE IF Contains(cls, Kw.tantalum) \/ Contains(cls, Kw.electrolytic)
        THEN math_lambda_capacitor(
                 IF Contains(cls, Kw.tantalum) THEN "Tantalum Solid"
                 ELSE "Aluminum Electrolytic (Non-Solid)",
                 Get(params, "t_ambient", RInt(25)), n_cycles, delta_t)
        ELSE IF Contains(cls, Kw.transistor)
        THEN math_lambda_transistor(Get(params, "t_junction", RInt(85)), n_cycles, delta_t)
        ELSE IF Contains(cls, Kw.diode)
        THEN math_lambda_diode(Get(params, "t_junction", RInt(85)), n_cycles, delta_t)
        ELSE IF Contains(cls, Kw.integrated_circuit)
                \/ cls \in {Kw.ic, Kw.mcu, Kw.microcontroller, Kw.fpga}
        THEN math_lambda_integrated_circuit("MOS_DIGITAL",
                 Get(params, "t_junction", RInt(85)), n_cycles, delta_t)
        ELSE IF Contains(cls, Kw.inductor)
        THEN math_lambda_inductor(Get(params, "t_ambient", RInt(25)), n_cycles, delta_t)
        ELSE IF Contains(cls, Kw.converter) \/ Contains(cls, Kw.dc_dc)
        THEN math_lambda_misc_component("DC-DC Converter (<10W)", 1, n_cycles, delta_t)
        ELSE IF Contains(cls, Kw.ldo) \/ Contains(cls, Kw.regulator)
        THEN math_lambda_integrated_circuit("BICMOS_LOW_V",
                 Get(params, "t_junction", RInt(100)), n_cycles, delta_t)
        ELSE IF Contains(cls, Kw.crystal) \/ Contains(cls, Kw.oscillator)
        THEN math_lambda_misc_component("Crystal Oscillator (XO)", 1, 5256, RInt(3))
        ELSE IF Contains(cls, Kw.connector)
        THEN math_lambda_misc_component("Connector (per contact)",
                                        Get(params, "n_pins", 10), 5256, RInt(3))
        ELSE FixedRate(RInt(10))

\* class names of component records: the categories of the models, and
\* names no model recognizes
Cls ==
    [ Resistor |-> <<"R", "e", "s", "i", "s", "t", "o", "r">>,
      Ceramic_Capacitor |-> <<"C", "e", "r", "a", "m", "i", "c", " ", "C", "a", "p", "a", "c", "i", "t", "o", "r">>,
      Tantalum_Capacitor |-> <<"T", "a", "n", "t", "a", "l", "u", "m", " ", "C", "a", "p", "a", "c", "i", "t", "o", "r">>,
      Electrolytic_Capacitor |-> <<"E", "l", "e", "c", "t", "r", "o", "l", "y", "t", "i", "c", " ", "C", "a", "p", "a", "c", "i", "t", "o", "r">>,
      Power_Transistor |-> <<"P", "o", "w", "e", "r", " ", "T", "r", "a", "n", "s", "i", "s", "t", "o", "r">>,
      Diode |-> <<"D", "i", "o", "d", "e">>,
      Integrated_Circuit |-> <<"I", "n", "t", "e", "g", "r", "a", "t", "e", "d", " ", "C", "i", "r", "c", "u", "i", "t">>,
      MCU |-> <<"M", "C", "U">>,
      Inductor |-> <<"I", "n", "d", "u", "c", "t", "o", "r">>,
      DC_DC_Converter |-> <<"D", "C", "-", "D", "C", " ", "C", "o", "n", "v", "e", "r", "t", "e", "r">>,
      Battery |-> <<"B", "a", "t", "t", "e", "r", "y">>,
      Connector |-> <<"C", "o", "n", "n", "e", "c", "t", "o", "r">>,
      Fuse |-> <<"F", "u", "s", "e">>,
      Empty |-> <<>> ]

\* the values of the enum ComponentClass
ComponentClass ==
    [ RESISTOR |-> <<"R", "e", "s", "i", "s", "t", "o", "r", " ", "(", "1", "1", ".", "1", ")">>,
      CERAMIC_CAPACITOR |-> <<"C", "e", "r", "a", "m", "i", "c", " ", "C", "a", "p", "a", "c", "i", "t", "o", "r", " ", "(", "1", "0", ".", "3", ")">>,
      TANTALUM_CAPACITOR |-> <<"T", "a", "n", "t", "a", "l", "u", "m", " ", "C", "a", "p", "a", "c", "i", "t", "o", "r", " ", "(", "1", "0", ".", "4", ")">>,
      LOW_POWER_TRANSISTOR |-> <<"L", "o", "w", " ", "P", "o", "w", "e", "r", " ", "T", "r", "a", "n", "s", "i", "s", "t", "o", "r", " ", "(", "8", ".", "4", ")">>,
      POWER_TRANSISTOR |-> <<"P", "o", "w", "e", "r", " ", "T", "r", "a", "n", "s", "i", "s", "t", "o", "r", " ", "(", "8", ".", "5", ")">>,
      LOW_POWER_DIODE |-> <<"L", "o", "w", " ", "P", "o", "w", "e", "r", " ", "D", "i", "o", "d", "e", " ", "(", "8", ".", "2", ")">>,
      POWER_DIODE |-> <<"P", "o", "w", "e", "r", " ", "D", "i", "o", "d", "e", " ", "(", "8", ".", "3", ")">>,
      INTEGRATED_CIRCUIT |-> <<"I", "n", "t", "e", "g", "r", "a", "t", "e", "d", " ", "C", "i", "r", "c", "u", "i", "t", " ", "(", "7", ")">>,
      INDUCTOR |-> <<"I", "n", "d", "u", "c", "t", "o", "r", " ", "(", "1", "2", ")">>,
      CONVERTER |-> <<"C", "o", "n", "v", "e", "r", "t", "e", "r", " ", "<", "1", "0", "W", " ", "(", "1", "9", ".", "6", ")">>,
      PRIMARY_BATTERY |-> <<"P", "r", "i", "m", "a", "r", "y", " ", "B", "a", "t", "t", "e", "r", "y", " ", "(", "1", "9", ".", "1", ")">> ]

ClassNames ==
    {Cls.Resistor, Cls.Ceramic_Capacitor, Cls.Tantalum_Capacitor, Cls.Electrolytic_Capacitor,
     Cls.Power_Transistor, Cls.Diode, Cls.Integrated_Circuit, Cls.MCU,
     Cls.Inductor, Cls.DC_DC_Converter, Cls.Battery, Cls.Connector,
     Cls.Fuse, Cls.Empty}

\* a function from the bindings given: the fields a record carries
Bindings(S) == [f \in { b[1] : b \in S } |-> (CHOOSE b \in S : b[1] = f)[2]]

\* params dictionaries: each of rated_power, ic_type and package absent,
\* degenerate or unlisted, or well-formed
ParamRecords ==
    { Bindings(rp \cup ic \cup pk) :
        rp \in {{}, {<<"rated_power", Zero>>}, {<<"rated_power", Rat(125, 1000)>>}},
        ic \in {{}, {<<"ic_type", "">>},
                {<<"ic_type", "MOS ASIC, Gate Arrays, 12 gates">>}},
        pk \in {{}, {<<"package", "0603">>}} }

\* params dictionaries that select the type of a transistor or a diode
TypeRecords ==
    { Bindings(tt \cup dt) :
        tt \in {{}, {<<"transistor_type", "Bipolar">>}},
        dt \in {{}, {<<"diode_type", "zener">>}, {<<"diode_type", "trigger">>}} }

\* the fields of schematic components: Class, Rated_Power and Surface_Area
\* each absent or present, the numbers 0 or not
ComponentRecords ==
    { Bindings(cl \cup rp \cup sa) :
        cl \in {{}} \cup { {<<"Class", c>>} :
                  c \in {Cls.Resistor, Cls.Inductor, Cls.Integrated_Circuit, Cls.Fuse} },
        rp \in {{}, {<<"Rated_Power", Zero>>}},
        sa \in {{}, {<<"Surface_Area", Zero>>}, {<<"Surface_Area", RInt(50)>>}} }

\* the params _calculate_sheets builds for component c
component_params(c, cycles, dt) ==
    [n_cycles |-> cycles, delta_t |-> dt,
     t_ambient |-> Get(c, "T_Ambient", Get(c, "Temperature_Ambient", RInt(25))),
     t_junction |-> Get(c, "T_Junction", Get(c, "Temperature_Junction", RInt(85))),
     operating_power |-> Get(c, "Operating_Power", Rat(1, 100)),
     rated_power |-> Get(c, "Rated_Power", Rat(125, 1000)),
     package |-> Get(c, "Package", ""),
     transistor_type |-> Get(c, "Transistor_Type", "MOS"),
     diode_type |-> Get(c, "Diode_Type", "signal"),
     ic_type |-> Get(c, "IC_Type", ""),
     construction_year |-> Get(c, "Construction_Year", 2020),
     inductor_type |-> Get(c, "Inductor_Type", "power"),
     power_loss |-> Get(c, "Power_Loss", Rat(1, 10)),
     surface_area |-> Get(c, "Surface_Area", RInt(100))]

\* the loop of _calculate_sheets over the components of one sheet, with the
\* failure-rate function of module "math" or "core": the rates added into
\* total_lam, or the first exception, which nothing catches
calculate_sheet(module, components, cycles, dt) ==
    LET cls(c) == Get(c, "Reliability_Class", Get(c, "Class", <<>>))
        f(component_class, params) ==
            IF module = "math" THEN math_calculate_lambda(component_class, params)
            ELSE calculate_component_lambda(component_class, params)
        lam    == [i \in 1..Len(components) |->
                      f(IF cls(components[i]) = <<>> THEN Cls.Resistor
                        ELSE cls(components[i]),
                        component_params(components[i], cycles, dt))]
        failing == { i \in 1..Len(components) : lam[i].kind = "raise" }
    IN  IF failing # {}
        THEN lam[CHOOSE i \in failing : \A j \in failing : i <= j]
        ELSE [kind |-> "sheet", lambda |-> lam]

----------------------------------------------------------------------------
(* Applying the composition functions to bounded inputs *)

NoResult == [math |-> Zero, core |-> Zero]

\* the worked example of the k-of-n closed form
NineTenths == Rat(9, 10)

MathLists ==
    UNION { [1..n -> Grid] : n \in 0..MaxN }
        \cup { <<NineTenths, NineTenths, NineTenths>> }

MathKs == (-1)..(MaxN + 1)

MathIdle ==
    /\ r_list = <<>>
    /\ k_arg = 0
    /\ mpc = "idle"
    /\ res = NoResult

RunIdle ==
    /\ impl = "none"
    /\ kstack = <<>>
    /\ kret = Zero
    /\ evals = <<>>

TreeIdle ==
    /\ blocks = <<>>
    /\ root_group = "None"
    /\ sheet_data = <<>>
    /\ years = 0
    /\ sys_out = <<>>
    /\ last_op = "none"
    /\ selected_block = "None"
    /\ raised = "None"
    /\ gestures = 0
    /\ editor_mission_hours = 0

MathInit ==
    /\ r_list \in MathLists
    /\ k_arg \in MathKs
    /\ mpc = "input"
    /\ res = NoResult
    /\ RunIdle
    /\ TreeIdle

CallSeries ==
    /\ mpc = "input"
    /\ mpc' = "r_series"
    /\ res' = [math |-> math_r_series(r_list), core |-> r_series(r_list)]
    /\ UNCHANGED <<r_list, k_arg, runVars, treeVars>>

CallParallel ==
    /\ mpc = "input"
    /\ mpc' = "r_parallel"
    /\ res' = [math |-> math_r_parallel(r_list), core |-> r_parallel(r_list)]
    /\ UNCHANGED <<r_list, k_arg, runVars, treeVars>>

CallKOfN ==
    /\ mpc = "input"
    /\ mpc' = "r_k_of_n"
    /\ res' = [math |-> math_r_k_of_n(r_list, k_arg),
               core |-> r_k_of_n(r_list, k_arg)]
    /\ UNCHANGED <<r_list, k_arg, runVars, treeVars>>

\* reliabilities handed to lambda_from_reliability: the grid and one value
\* on each side of [0, 1]
LambdaInputs == Grid \cup {Rat(-1, GridDen), Rat(GridDen + 1, GridDen)}

\* mission durations in hours: 5 and 10 years
MissionHours == {5 * 365 * 24, 10 * 365 * 24}

\* lambda_from_reliability takes one reliability and no list: it is applied
\* from the inputs with the empty list
CallLambda ==
    /\ mpc = "input"
    /\ r_list = <<>>
    /\ \E r \in LambdaInputs, hours \in MissionHours :
          res' = [math |-> math_lambda_from_reliability(r, hours),
                  core |-> lambda_from_reliability(r, hours),
                  r |-> r, hours |-> hours]
    /\ mpc' = "lambda_from_reliability"
    /\ UNCHANGED <<r_list, k_arg, runVars, treeVars>>

\* the failure-rate functions take a class name and a dictionary
CallCalculateLambda ==
    /\ mpc = "input"
    /\ r_list = <<>>
    /\ k_arg = 0
    /\ \E cls \in ClassNames, params \in ParamRecords :
          res' = [math |-> math_calculate_lambda(cls, params),
                  core |-> calculate_component_lambda(cls, params),
                  cls |-> cls, params |-> params]
    /\ mpc' = "calculate_lambda"
    /\ UNCHANGED <<r_list, k_arg, runVars, treeVars>>

\* calculate_component_lambda on a value of the enum
CallComponentClass ==
    /\ mpc = "input"
    /\ r_list = <<>>
    /\ k_arg = 0
    /\ \E name \in DOMAIN ComponentClass, params \in TypeRecords :
          res' = [core |-> calculate_component_lambda(ComponentClass[name], params),
                  name |-> name, params |-> params]
    /\ mpc' = "ComponentClass"
    /\ UNCHANGED <<r_list, k_arg, runVars, treeVars>>

\* _calculate_sheets on one sheet of up to MaxComponents components, at the
\* initial settings of the panel (5256 cycles, 3 degrees)
CallCalculateSheets ==
    /\ mpc = "input"
    /\ r_list = <<>>
    /\ k_arg = 0
    /\ \E n \in 1..MaxComponents : \E components \in [1..n -> ComponentRecords] :
          res' = [math |-> calculate_sheet("math", components,
                                           5256, RInt(3)),
                  core |-> calculate_sheet("core", components,
                                           5256, RInt(3)),
                  components |-> components]
    /\ mpc' = "_calculate_sheets"
    /\ UNCHANGED <<r_list, k_arg, runVars, treeVars>>

\* rated voltages: none given (0), and two positive ones
RatedVolts == {Zero, One, RInt(2)}

\* the transistor stress factor on ratios from LambdaInputs: reliability_math
\* is handed the ratios, reliability_core the applied and rated voltages
CallStress ==
    /\ mpc = "input"
    /\ r_list = <<>>
    /\ k_arg = 0
    /\ \E bipolar \in BOOLEAN, v_max \in RatedVolts :
       \E s_ce \in LambdaInputs, s_ds \in LambdaInputs, s_gs \in LambdaInputs :
          res' = [math |-> math_pi_s(IF bipolar THEN "bipolar" ELSE "mos",
                                     s_ce, s_ds, s_gs),
                  core |-> pi_stress_transistor(
                               IF bipolar THEN "Bipolar" ELSE "MOS",
                               RMul(s_ce, v_max), v_max, RMul(s_ds, v_max), v_max,
                               RMul(s_gs, v_max), v_max),
                  bipolar |-> bipolar, v_max |-> v_max,
                  s |-> <<s_ce, s_ds, s_gs>>]
    /\ mpc' = "pi_stress_transistor"
    /\ UNCHANGED <<r_list, k_arg, runVars, treeVars>>

\* values of the factors that are floats above 0 whatever the parameters
\* (pi_t, pi_n * delta_t ** 0.68 and the rates built from them)
FactorValues == {Rat(1, 2), One, RInt(2)}

\* the three kinds of result dictionary of reliability_math, for working-time
\* ratios w_on from the grid
CallModel ==
    /\ mpc = "input"
    /\ r_list = <<>>
    /\ k_arg = 0
    /\ \E w_on \in Grid, pi_t \in FactorValues, pkg \in FactorValues :
          \/ \E is_interface \in BOOLEAN :
                res' = [math |-> math_ic_result(RInt(3), pi_t, pkg, is_interface,
                                                "Computer", w_on),
                        core |-> Zero, w_on |-> w_on]
          \/ \E n \in 1..2 :
                res' = [math |-> math_resistor_result(Rat(1, 100), n, pi_t, pkg, w_on),
                        core |-> Zero, w_on |-> w_on]
          \/ \E component_type \in DOMAIN MISC_COMPONENT_RATES, n \in 1..2 :
                res' = [math |-> math_misc_result(component_type, n, pkg, w_on),
                        core |-> Zero, w_on |-> w_on]
    /\ mpc' = "lambda_model"
    /\ UNCHANGED <<r_list, k_arg, runVars, treeVars>>

MathNext ==
    \/ CallSeries
    \/ CallParallel
    \/ CallKOfN
    \/ CallLambda
    \/ CallCalculateLambda
    \/ CallCalculateSheets
    \/ CallStress
    \/ CallModel
    \/ CallComponentClass

SpecMath == MathInit /\ [][MathNext]_vars

----------------------------------------------------------------------------
(* Reference values the claims compare the code against *)

RECURSIVE SubsetProb(_, _, _)
\* probability that exactly the children in S function, from child i on
SubsetProb(rs, S, i) ==
    IF i > Len(rs) THEN One
    ELSE RMul(IF i \in S THEN rs[i] ELSE RSub(One, rs[i]),
              SubsetProb(rs, S, i + 1))

\* subset number m of 1..n: child i is in it when bit i-1 of m is set
SubsetNo(n, m) == { i \in 1..n : (m \div (2 ^ (i - 1))) % 2 = 1 }

RECURSIVE SumProb(_, _, _, _)
\* sum of SubsetProb over the subsets numbered lo..hi that have at least k
\* children, by halving the range
SumProb(rs, k, lo, hi) ==
    IF lo = hi
    THEN (IF Cardinality(SubsetNo(Len(rs), lo)) >= k
          THEN SubsetProb(rs, SubsetNo(Len(rs), lo), 1) ELSE Zero)
    ELSE LET mid == (lo + hi) \div 2
         IN  RAdd(SumProb(rs, k, lo, mid), SumProb(rs, k, mid + 1, hi))

\* probability that at least k of the independent children function
AtLeastK(rs, k) == SumProb(rs, k, 0, 2 ^ Len(rs) - 1)

\* the one-step conditioning identity on the last child, for function f
Conditioned(f(_, _), rs, k) ==
    RAdd(RMul(Last(rs), f(ButLast(rs), k - 1)),
         RMul(RSub(One, Last(rs)), f(ButLast(rs), k)))

RECURSIVE GeneralKOfN(_, _)
\* the general recursive identity with no shortcut
GeneralKOfN(rs, k) ==
    LET n == Len(rs)
    IN  IF k > n \/ k < 1 THEN Zero
        ELSE IF k = 1 THEN RSub(One, SubsetProb(rs, {}, 1))
        ELSE IF k = n THEN SubsetProb(rs, 1..n, 1)
        ELSE Conditioned(GeneralKOfN, rs, k)

InUnit(r) == RLeq(Zero, r) /\ RLeq(r, One)

----------------------------------------------------------------------------
(* Claims on the composition functions, under SpecMath *)

\* C1: for 1 <= k <= n, r_k_of_n(r, k) of both modules is the probability that
\* at least k of the n independent children function (the sum over the subsets
\* of at least k children), and for 1 < k < n it equals
\* rn * R(k-1, rest) + (1-rn) * R(k, rest) with rn the last child.
C1_KOfNIsAtLeastK ==
    (mpc = "r_k_of_n" /\ 1 <= k_arg /\ k_arg <= Len(r_list)) =>
        /\ res.math = AtLeastK(r_list, k_arg)
        /\ res.core = AtLeastK(r_list, k_arg)
        /\ (1 < k_arg /\ k_arg < Len(r_list)) =>
              /\ res.math = Conditioned(math_r_k_of_n, r_list, k_arg)
              /\ res.core = Conditioned(r_k_of_n, r_list, k_arg)

C1_Witness ==
    /\ mpc = "r_k_of_n"
    /\ Len(r_list) = 4
    /\ k_arg = 2
    /\ Cardinality({ r_list[i] : i \in 1..4 }) = 4
    /\ res.core = AtLeastK(r_list, 2)
    /\ RLt(Zero, res.core)
    /\ RLt(res.core, One)

\* C2: for k > n or k < 1 (the empty list included) r_k_of_n of both modules
\* returns the value 0.
C2_OutOfRangeKIsZero ==
    (mpc = "r_k_of_n" /\ (k_arg > Len(r_list) \/ k_arg < 1)) =>
        /\ res.math = Zero
        /\ res.core = Zero

C2_Witness ==
    /\ mpc = "r_k_of_n"
    /\ Len(r_list) = 2
    /\ k_arg = 0
    /\ r_list[1] = One
    /\ r_list[2] = One
    /\ res.math = Zero
    /\ res.core = Zero

\* C3: for a non-empty list, r_k_of_n(r, len(r)) is r_series(r) and
\* r_k_of_n(r, 1) is r_parallel(r), in both modules; for the one-element list
\* both hold at once.
C3_KOfNEndsAreSeriesParallel ==
    (mpc = "r_k_of_n" /\ Len(r_list) >= 1) =>
        /\ k_arg = Len(r_list) =>
              /\ res.math = math_r_series(r_list)
              /\ res.core = r_series(r_list)
        /\ k_arg = 1 =>
              /\ res.math = math_r_parallel(r_list)
              /\ res.core = r_parallel(r_list)

C3_Witness ==
    /\ mpc = "r_k_of_n"
    /\ Len(r_list) = 1
    /\ k_arg = 1
    /\ RLt(Zero, r_list[1])
    /\ RLt(r_list[1], One)
    /\ res.core = r_series(r_list)
    /\ res.core = r_parallel(r_list)

\* C4: when all n children share one reliability and 1 < k < n, the binomial
\* closed form reliability_math.r_k_of_n returns equals the general recursive
\* identity on the same list; three children of 0.9 with k = 2 give 0.972.
C4_BinomialIsRecursive ==
    (mpc = "r_k_of_n" /\ AllIdentical(r_list)
        /\ 1 < k_arg /\ k_arg < Len(r_list)) =>
        /\ res.math = GeneralKOfN(r_list, k_arg)
        /\ (r_list = <<NineTenths, NineTenths, NineTenths>> /\ k_arg = 2) =>
              res.math = Rat(972, 1000)

C4_Witness ==
    /\ mpc = "r_k_of_n"
    /\ r_list = <<NineTenths, NineTenths, NineTenths>>
    /\ k_arg = 2
    /\ res.math = Rat(972, 1000)

\* C29: the two k-of-n implementations are equivalent on every input: the
\* hard-coded four-term expansion of reliability_core.r_k_of_n for n = 3,
\* k = 2 equals the general recursive identity for every triple, asymmetric
\* ones included, and reliability_core.r_k_of_n(r, k) equals
\* reliability_math.r_k_of_n(r, k) for every list r and every integer k.
C29_ImplementationsAgree ==
    mpc = "r_k_of_n" =>
        /\ res.core = res.math
        /\ (Len(r_list) = 3 /\ k_arg = 2) =>
              res.core = Conditioned(GeneralKOfN, r_list, 2)

\* an asymmetric triple through the hard-coded expansion
C29_Witness ==
    /\ mpc = "r_k_of_n"
    /\ r_list = <<Rat(1, GridDen), One, Rat(2, GridDen)>>
    /\ k_arg = 2
    /\ res.core = res.math
    /\ res.core = Conditioned(GeneralKOfN, r_list, 2)
    /\ RLt(Zero, res.core)
    /\ RLt(res.core, One)

\* four identical children: the closed form on one side, the recursion
\* through the expansion on the other
ClosedFormMeetsExpansion ==
    /\ mpc = "r_k_of_n"
    /\ Len(r_list) = 4
    /\ AllIdentical(r_list)
    /\ k_arg \in {2, 3}
    /\ RLt(Zero, res.core)
    /\ RLt(res.core, One)
    /\ res.core = res.math

\* k outside 1..n, negative included
OutOfRangeAgree ==
    /\ mpc = "r_k_of_n"
    /\ Len(r_list) >= 1
    /\ (k_arg < 0 \/ k_arg > Len(r_list))
    /\ res.core = res.math

\* C9: for a non-empty list of reliabilities in [0,1], r_series is at most
\* every element and r_parallel at least every element; a Series list with one
\* more child appended is never more reliable than without it.
C9_SeriesBelowMinParallelAboveMax ==
    (Len(r_list) >= 1 /\ \A i \in 1..Len(r_list) : InUnit(r_list[i])) =>
        /\ mpc = "r_series" =>
              /\ \A i \in 1..Len(r_list) :
                    RLeq(res.math, r_list[i]) /\ RLeq(res.core, r_list[i])
              /\ RLeq(res.math, math_r_series(ButLast(r_list)))
              /\ RLeq(res.core, r_series(ButLast(r_list)))
        /\ mpc = "r_parallel" =>
              \A i \in 1..Len(r_list) :
                    RLeq(r_list[i], res.math) /\ RLeq(r_list[i], res.core)

C9_Witness ==
    /\ mpc = "r_series"
    /\ Len(r_list) = 3
    /\ \A i \in 1..3 : RLt(Zero, r_list[i]) /\ RLt(r_list[i], One)
    /\ \A i \in 1..3 : RLt(res.core, r_list[i])
    /\ RLt(res.core, r_series(ButLast(r_list)))

\* C10: r_series([]) is 1.0 and r_parallel([]) is 0.0, in both modules.
C10_EmptyLists ==
    (r_list = <<>>) =>
        /\ mpc = "r_series" => res.math = One /\ res.core = One
        /\ mpc = "r_parallel" => res.math = Zero /\ res.core = Zero

C10_Witness ==
    /\ r_list = <<>>
    /\ mpc = "r_parallel"
    /\ res.core = Zero
    /\ res.math = Zero

\* what the rate of reliability r over the mission is to be: +infinity at
\* r <= 0, 0 at r >= 1, -ln(r)/hours between
SaturatedRate(r, hours) ==
    IF RLeq(r, Zero) THEN LamInf
    ELSE IF RLeq(One, r) THEN LamNum(Zero)
    ELSE LamNegLog(r, hours)

LambdaDiffersOnlyAtOne ==
    mpc = "lambda_from_reliability" =>
        /\ res.math = SaturatedRate(res.r, res.hours)
        /\ IF res.r = One THEN res.core = LamNegZero
           ELSE res.core = res.math

\* the category words of the two dispatchers
CategoryWords ==
    {Kw.resistor, Kw.capacitor, Kw.tantalum, Kw.electrolytic, Kw.transistor,
     Kw.diode, Kw.integrated_circuit, Kw.ic, Kw.mcu, Kw.microcontroller, Kw.fpga,
     Kw.inductor, Kw.converter, Kw.dc_dc, Kw.ldo, Kw.regulator, Kw.crystal,
     Kw.oscillator, Kw.connector, Kw.battery}

\* a class name in which no category word occurs
Unrecognized(cls) == \A w \in CategoryWords : ~Contains(lower(cls), w)

\* a rate that is a number above 0
StrictlyPositive(x) ==
    \/ x.kind = "formula"
    \/ x.kind = "fixed" /\ RLt(Zero, x.fit)

\* the fixed default: a literal above 0
FixedPositiveDefault(x) == x.kind = "fixed" /\ RLt(Zero, x.fit)

\* a rate above 0, or an exception that is not a lookup error
NoLookupErrorNoZero(x) ==
    IF x.kind = "raise" THEN x.exc \notin {"KeyError", "IndexError"}
    ELSE StrictlyPositive(x)

\* C12: for an unrecognized category string the failure-rate computation
\* returns a fixed strictly positive default rate, and for an ic_type or
\* package missing from its table it returns a strictly positive rate; it
\* never returns 0 and never raises.
C12_UnknownGetsPositiveDefault ==
    mpc = "calculate_lambda" =>
        /\ Unrecognized(res.cls) =>
              FixedPositiveDefault(res.math) /\ FixedPositiveDefault(res.core)
        /\ NoLookupErrorNoZero(res.math)
        /\ NoLookupErrorNoZero(res.core)

\* the math dispatcher alone does what C12 says
MathUnknownGetsPositiveDefault ==
    mpc = "calculate_lambda" =>
        /\ Unrecognized(res.cls) => FixedPositiveDefault(res.math)
        /\ StrictlyPositive(res.math)

\* C13: for every component record, missing fields and rated power 0 or
\* radiating surface 0 included, the failure-rate computation returns a
\* finite number without raising, and the calculation of the sheet over all
\* its components completes.
C13_EveryRecordYieldsARate ==
    /\ mpc = "calculate_lambda" =>
          res.math.kind # "raise" /\ res.core.kind # "raise"
    /\ mpc = "_calculate_sheets" =>
          res.math.kind = "sheet" /\ res.core.kind = "sheet"

\* reliability_math.calculate_lambda guards its divisions: it never raises
MathEveryRecordYieldsARate ==
    /\ mpc = "calculate_lambda" => res.math.kind # "raise"
    /\ mpc = "_calculate_sheets" => res.math.kind = "sheet"

\* a ratio brought into [0, 1]
Clamp01(s) == RMax(Zero, RMin(s, One))

\* the stress factor on the clamped ratios
ClampedStress(bipolar, s) ==
    IF bipolar THEN <<StressExp(Rat(17, 10), Clamp01(s[1]))>>
    ELSE <<StressExp(Rat(17, 10), Clamp01(s[2])), StressExp(RInt(3), Clamp01(s[3]))>>

\* C21: in the transistor electrical-stress factor every applied/rated
\* voltage ratio is clamped to [0, 1] before it enters 0.22 x exp(1.7 x s)
\* (and the exponent-3 gate-source term for MOS): above 1 is treated as 1,
\* below 0 as 0, in reliability_math.lambda_transistor and in
\* reliability_core.pi_stress_transistor alike.
C21_StressRatioClamped ==
    mpc = "pi_stress_transistor" =>
        /\ res.math = ClampedStress(res.bipolar, res.s)
        /\ RLt(Zero, res.v_max) => res.core = ClampedStress(res.bipolar, res.s)

\* what the code does: reliability_math cuts the ratio at 1 only, and
\* reliability_core uses the ratio as it is
StressAsCoded ==
    mpc = "pi_stress_transistor" =>
        LET used == IF res.bipolar THEN <<res.s[1]>> ELSE <<res.s[2], res.s[3]>>
        IN  /\ \A i \in 1..Len(used) : res.math[i].s = RMin(used[i], One)
            /\ \A i \in 1..Len(used) :
                  res.core[i].s = IF RLt(Zero, res.v_max) THEN used[i] ELSE Zero

RECURSIVE NanoSum(_, _)
\* the sum of the contributions from the i-th on
NanoSum(cs, i) ==
    IF i > Len(cs) THEN Zero ELSE RAdd(cs[i].nano, NanoSum(cs, i + 1))

\* the result names its contributions and they sum to its total
TotalIsSum(d) ==
    d.contributions # <<>> => d.lambda_total = Nano(NanoSum(d.contributions, 1))

\* C22: every failure-rate model result of reliability_math satisfies, for
\* every w_on (w_on different from 1 included): lambda_total is the sum of
\* the returned contributions (die/base, package, overstress), lambda_total
\* is fit_total x 1e-9, and every contribution is >= 0.
C22_TotalsBalance ==
    mpc = "lambda_model" =>
        /\ TotalIsSum(res.math)
        /\ res.math.lambda_total = Nano(res.math.fit_total)
        /\ \A i \in 1..Len(res.math.contributions) :
              RLeq(Zero, res.math.contributions[i].nano)

\* the models that return contributions balance for every w_on, and
\* lambda_misc_component balances at w_on = 1 only
OnlyMiscOutOfBalance ==
    mpc = "lambda_model" =>
        /\ TotalIsSum(res.math)
        /\ \A i \in 1..Len(res.math.contributions) :
              RLeq(Zero, res.math.contributions[i].nano)
        /\ (res.math.model # "lambda_misc_component" \/ res.w_on = One)
              <=> res.math.lambda_total = Nano(res.math.fit_total)

\* the model function each enum value is stated to reach
StatedCategory ==
    [ RESISTOR |-> "lambda_resistor",
      CERAMIC_CAPACITOR |-> "lambda_capacitor",
      TANTALUM_CAPACITOR |-> "lambda_capacitor",
      LOW_POWER_TRANSISTOR |-> "lambda_transistor",
      POWER_TRANSISTOR |-> "lambda_transistor",
      LOW_POWER_DIODE |-> "lambda_diode",
      POWER_DIODE |-> "lambda_diode",
      INTEGRATED_CIRCUIT |-> "lambda_ic",
      INDUCTOR |-> "lambda_inductor",
      CONVERTER |-> "lambda_converter",
      PRIMARY_BATTERY |-> "lambda_battery" ]

\* the power class each transistor and diode value is stated to get
StatedPowerClass ==
    [ LOW_POWER_TRANSISTOR |-> "low", POWER_TRANSISTOR |-> "high",
      LOW_POWER_DIODE |-> "low", POWER_DIODE |-> "high" ]

\* the rate came from the model function `of`
RoutedTo(rate, of) ==
    IF of = "lambda_battery" THEN rate = lambda_battery
    ELSE rate.kind = "formula" /\ rate.of = of

\* the base rate the rate was computed from is the one of power class pc
BaseRateOf(rate, params, pc) ==
    IF rate.of = "lambda_transistor"
    THEN rate.args[2] = (IF pc = "low" THEN Rat(75, 100) ELSE RInt(2))
    ELSE rate.args[2] = DIODE_BASE_RATES[<<Get(params, "diode_type", "signal"), pc>>]

\* C30: calculate_component_lambda routes every ComponentClass enum value to
\* its own category with the stated power class: 'Low Power Transistor (8.4)'
\* and 'Low Power Diode (8.2)' get power class 'low' (transistor base rate
\* 0.75), 'Power Transistor (8.5)' and 'Power Diode (8.3)' get 'high' (2.0).
C30_EnumValuesRouted ==
    mpc = "ComponentClass" =>
        /\ RoutedTo(res.core, StatedCategory[res.name])
        /\ res.name \in DOMAIN StatedPowerClass =>
              BaseRateOf(res.core, res.params, StatedPowerClass[res.name])

\* as coded: every value reaches its category, and every transistor and
\* diode value gets the base rate of power class 'high'
EnumValuesRoutedAsCoded ==
    mpc = "ComponentClass" =>
        /\ RoutedTo(res.core, StatedCategory[res.name])
        /\ res.name \in DOMAIN StatedPowerClass =>
              BaseRateOf(res.core, res.params, "high")

----------------------------------------------------------------------------
(* One top-level r_k_of_n call, run call by call.  A frame is one            *)
(* activation of r_k_of_n on the first n elements of r_list (r_rest is       *)
(* always a prefix of the top-level list).                                   *)

Prefix(n) == SubSeq(r_list, 1, n)

\* the activation returns without calling r_k_of_n again
ReturnsDirectly(im, n, k) ==
    \/ k > n \/ k < 1
    \/ k = 1
    \/ k = n
    \/ im = "math" /\ AllIdentical(Prefix(n))
    \/ im = "core" /\ ((n = 3 /\ k = 2) \/ n = 1)

\* what such an activation returns
DirectValue(im, n, k) ==
    IF im = "math" THEN math_r_k_of_n(Prefix(n), k)
    ELSE r_k_of_n(Prefix(n), k)

Frame(n, k) == [n |-> n, k |-> k, pc |-> "enter", first |-> Zero]

\* the length of a list passed on whole
r_rest_whole(n) == n

\* the length of r_rest = r_list[:-1], for r_list of length n
r_rest(n) == n - 1

Top == kstack[Len(kstack)]

Pop == SubSeq(kstack, 1, Len(kstack) - 1)

\* n pairwise distinct reliabilities 1/(MaxRunN+1), 2/(MaxRunN+1), ...
DistinctList(n) == [i \in 1..n |-> Rat(i, MaxRunN + 1)]

\* n copies of one reliability
IdenticalList(n) == [i \in 1..n |-> Rat(1, MaxRunN + 1)]

RunInit ==
    /\ \E n \in 0..MaxRunN :
          r_list \in {DistinctList(n), IdenticalList(n)}
    /\ k_arg \in (-1)..(MaxRunN + 1)
    /\ impl \in {"math", "core"}
    /\ kstack = <<Frame(Len(r_list), k_arg)>>
    /\ kret = Zero
    /\ evals = <<>>
    /\ mpc = "run"
    /\ res = NoResult
    /\ TreeIdle

Entered(f) == Append(evals, <<f.n, f.k>>)

\* an activation that hits one of the non-recursive cases
KReturnDirectly ==
    /\ kstack # <<>>
    /\ Top.pc = "enter"
    /\ ReturnsDirectly(impl, Top.n, Top.k)
    /\ evals' = Entered(Top)
    /\ kret' = DirectValue(impl, Top.n, Top.k)
    /\ kstack' = Pop
    /\ UNCHANGED <<impl, mathVars, treeVars>>

\* r_k_of_n(r_rest, k - 1)
KCallFirst ==
    /\ kstack # <<>>
    /\ Top.pc = "enter"
    /\ ~ReturnsDirectly(impl, Top.n, Top.k)
    /\ evals' = Entered(Top)
    /\ kstack' = Append([kstack EXCEPT ![Len(kstack)].pc = "first"],
                        Frame(r_rest(Top.n), Top.k - 1))
    /\ UNCHANGED <<impl, kret, mathVars, treeVars>>

\* r_k_of_n(r_rest, k)
KCallSecond ==
    /\ kstack # <<>>
    /\ Top.pc = "first"
    /\ kstack' = Append([kstack EXCEPT ![Len(kstack)].pc = "second",
                                       ![Len(kstack)].first = kret],
                        Frame(r_rest(Top.n), Top.k))
    /\ UNCHANGED <<impl, kret, evals, mathVars, treeVars>>

\* return r_n * first + (1 - r_n) * second
KCombine ==
    /\ kstack # <<>>
    /\ Top.pc = "second"
    /\ kret' = RAdd(RMul(r_list[Top.n], Top.first),
                    RMul(RSub(One, r_list[Top.n]), kret))
    /\ kstack' = Pop
    /\ UNCHANGED <<impl, evals, mathVars, treeVars>>

RunNext == KReturnDirectly \/ KCallFirst \/ KCallSecond \/ KCombine

SpecRun == RunInit /\ [][RunNext]_vars

\* how often subproblem p was entered so far in this run
TimesEntered(p) == Cardinality({ i \in 1..Len(evals) : evals[i] = p })

PairwiseDistinct(rs) ==
    \A i, j \in 1..Len(rs) : i # j => rs[i] # rs[j]

\* the run ends with the value the function returns
RunRefinesFunction ==
    (mpc = "run" /\ kstack = <<>>) =>
        kret = DirectValue(impl, Len(r_list), k_arg)

\* C5: in one top-level r_k_of_n call over n children with pairwise distinct
\* reliabilities, each subproblem (remaining children, k') is evaluated at
\* most once, and at most n * k activations are entered.
C5_EachSubproblemOnce ==
    (mpc = "run" /\ PairwiseDistinct(r_list)
        /\ 1 <= k_arg /\ k_arg <= Len(r_list)) =>
        /\ \A i \in 1..Len(evals) : TimesEntered(evals[i]) <= 1
        /\ Len(evals) <= Len(r_list) * k_arg

----------------------------------------------------------------------------
(* block_editor.py: the block tree; reliability_dialog.py: the dialog state *)

None == "None"

ROOT == "__root__"

G1 == "__group_1__"

LeafIds == <<"sheet_1", "sheet_2", "sheet_3", "sheet_4", "sheet_5", "sheet_6">>

SheetNames == <<"/", "/Power/", "/MCU/", "/Radio/", "/Sensors/", "/Debug/">>

ConnectionTypes == {"series", "parallel", "k_of_n"}

\* a BlockNode as the constructor leaves it: reliability 1.0, lambda_val 0.0
BlockNode(name, is_group, children, connection_type, k_value) ==
    [name |-> name, is_group |-> is_group, children |-> children,
     connection_type |-> connection_type, k_value |-> k_value,
     reliability |-> One, lambda_val |-> LamNum(Zero)]

\* settings_panel.get_hours()
get_hours(y) == y * 365 * 24

\* sheet_data entry as _calculate_sheets stores it
SheetEntry(r, lam) == [r |-> r, lambda |-> lam]

\* the three sheets of the worked example: 0.99, 0.98, 0.995
ExampleSheets ==
    [nm \in {SheetNames[1], SheetNames[2], SheetNames[3]} |->
        IF nm = SheetNames[1] THEN SheetEntry(Rat(99, 100), LamNum(Rat(1, 1000)))
        ELSE IF nm = SheetNames[2] THEN SheetEntry(Rat(98, 100), LamNum(Rat(2, 1000)))
        ELSE SheetEntry(Rat(995, 1000), LamNum(Rat(1, 2000)))]

\* every sheet but the first has data: sheet i has reliability (i-1)/i
OtherSheets ==
    [nm \in { SheetNames[i] : i \in 2..Len(SheetNames) } |->
        LET i == CHOOSE j \in 2..Len(SheetNames) : SheetNames[j] = nm
        IN  SheetEntry(Rat(i - 1, i), LamNum(Rat(i, 1000)))]

SheetProfiles == {ExampleSheets, OtherSheets}

YearSettings == {5, 10}

\* data.get("r", 1.0) and data.get("lambda", 0.0) of sheet_data.get(name, {})
sheet_r(sd, name) == IF name \in DOMAIN sd THEN sd[name].r ELSE One

sheet_lambda(sd, name) ==
    IF name \in DOMAIN sd THEN sd[name].lambda ELSE LamNum(Zero)

\* the loop of _recalculate_all over editor.blocks
update_block_data(bl, sd) ==
    [id \in DOMAIN bl |->
        IF bl[id].is_group THEN bl[id]
        ELSE [bl[id] EXCEPT !.reliability = sheet_r(sd, bl[id].name),
                            !.lambda_val = sheet_lambda(sd, bl[id].name)]]

RECURSIVE calc(_, _, _, _)
RECURSIVE calc_children(_, _, _, _, _, _)
RECURSIVE calc_children_on_copy(_, _, _, _, _, _)
RECURSIVE calc_missing_fails(_, _, _, _)

\* mutant: every child is evaluated on a copy of the blocks and its writes
\* are dropped
calc_children_on_copy(bl, sd, hours, children, i, rs) ==
    IF i > Len(children) THEN [blocks |-> bl, rs |-> rs]
    ELSE LET c == calc(bl, sd, hours, children[i])
         IN  calc_children_on_copy(bl, sd, hours, children, i + 1, Append(rs, c.r))

\* [calc(cid) for cid in b.children], left to right from child i on; rs are the
\* values collected so far and bl the blocks as written so far
calc_children(bl, sd, hours, children, i, rs) ==
    IF i > Len(children) THEN [blocks |-> bl, rs |-> rs]
    ELSE LET c == calc(bl, sd, hours, children[i])
         IN  calc_children(c.blocks, sd, hours, children, i + 1, Append(rs, c.r))

\* mutant: a group combines the reliabilities its children held before the call
calc_cached(bl, sd, hours, block_id) ==
    IF block_id \notin DOMAIN bl THEN [blocks |-> bl, r |-> One]
    ELSE LET b == bl[block_id]
         IN  IF b.is_group
             THEN LET kids == calc_children(bl, sd, hours, b.children, 1, <<>>)
                      child_rs == [i \in 1..Len(b.children) |->
                                     IF b.children[i] \in DOMAIN bl
                                     THEN bl[b.children[i]].reliability ELSE One]
                      r == IF b.connection_type = "series" THEN r_series(child_rs)
                           ELSE IF b.connection_type = "parallel" THEN r_parallel(child_rs)
                           ELSE r_k_of_n(child_rs, b.k_value)
                  IN  [blocks |-> [kids.blocks EXCEPT
                                    ![block_id].reliability = r,
                                    ![block_id].lambda_val =
                                        lambda_from_reliability(r, hours)],
                       r |-> r]
             ELSE [blocks |-> [bl EXCEPT
                                ![block_id].reliability = sheet_r(sd, b.name),
                                ![block_id].lambda_val = sheet_lambda(sd, b.name)],
                   r |-> sheet_r(sd, b.name)]

\* mutant: an id that is no key of blocks counts as reliability 0
calc_missing_fails(bl, sd, hours, block_id) ==
    IF block_id \notin DOMAIN bl THEN [blocks |-> bl, r |-> Zero]
    ELSE LET b == bl[block_id]
         IN  IF b.is_group
             THEN LET kids == calc_children(bl, sd, hours, b.children, 1, <<>>)
                      child_rs == kids.rs
                      r == IF b.connection_type = "series" THEN r_series(child_rs)
                           ELSE IF b.connection_type = "parallel" THEN r_parallel(child_rs)
                           ELSE r_k_of_n(child_rs, b.k_value)
                  IN  [blocks |-> [kids.blocks EXCEPT
                                    ![block_id].reliability = r,
                                    ![block_id].lambda_val =
                                        lambda_from_reliability(r, hours)],
                       r |-> r]
             ELSE [blocks |-> [bl EXCEPT
                                ![block_id].reliability = sheet_r(sd, b.name),
                                ![block_id].lambda_val = sheet_lambda(sd, b.name)],
                   r |-> sheet_r(sd, b.name)]

\* calc(block_id) of _calculate_system: the blocks after the call and its value
calc(bl, sd, hours, block_id) ==
    IF block_id \notin DOMAIN bl THEN [blocks |-> bl, r |-> One]
    ELSE LET b == bl[block_id]
         IN  IF b.is_group
             THEN LET kids == calc_children(bl, sd, hours, b.children, 1, <<>>)
                      child_rs == kids.rs
                      r == IF b.connection_type = "series" THEN r_series(child_rs)
                           ELSE IF b.connection_type = "parallel" THEN r_parallel(child_rs)
                           ELSE r_k_of_n(child_rs, b.k_value)
                  IN  [blocks |-> [kids.blocks EXCEPT
                                    ![block_id].reliability = r,
                                    ![block_id].lambda_val =
                                        lambda_from_reliability(r, hours)],
                       r |-> r]
             ELSE [blocks |-> [bl EXCEPT
                                ![block_id].reliability = sheet_r(sd, b.name),
                                ![block_id].lambda_val = sheet_lambda(sd, b.name)],
                   r |-> sheet_r(sd, b.name)]

\* mutant: refreshes every sheet block from sheet_data before evaluating
calculate_system_refresh(bl, root, sd, hours) ==
    IF root = None
    THEN [blocks |-> update_block_data(bl, sd), sys_r |-> One,
          sys_lam |-> LamNum(Zero)]
    ELSE LET c == calc(update_block_data(bl, sd), sd, hours, root)
         IN  [blocks |-> c.blocks, sys_r |-> c.r,
              sys_lam |-> lambda_from_reliability(c.r, hours)]

\* _calculate_system: the blocks after it and the pair it returns
calculate_system(bl, root, sd, hours) ==
    IF root = None
    THEN [blocks |-> bl, sys_r |-> One, sys_lam |-> LamNum(Zero)]
    ELSE LET c == calc(bl, sd, hours, root)
         IN  [blocks |-> c.blocks, sys_r |-> c.r,
              sys_lam |-> lambda_from_reliability(c.r, hours)]

Returned(c) == [done |-> TRUE, r |-> c.sys_r, lam |-> c.sys_lam]

----------------------------------------------------------------------------
(* The diagrams the dialog evaluates, as load_structure restores them from  *)
(* a saved file: a root group, one more group and MaxLeaves sheet blocks,   *)
(* the first under_root of them under the root, the next under_g1 under     *)
(* the group and the rest under no group.                                   *)

Leaves == 1..MaxLeaves

\* where each sheet block goes
Placements ==
    { pl \in [under_root : 0..MaxLeaves, under_g1 : 0..MaxLeaves] :
        pl.under_root + pl.under_g1 <= MaxLeaves }

\* the sheet blocks placed under group g, in sheet order
LeavesUnder(place, g) ==
    IF g = ROOT THEN [i \in 1..place.under_root |-> LeafIds[i]]
    ELSE [i \in 1..place.under_g1 |-> LeafIds[place.under_root + i]]

\* the root's children: its sheet blocks, then the group when it is attached
RootChildren(place, g1_attached) ==
    IF g1_attached THEN LeavesUnder(place, ROOT) \o <<G1>>
    ELSE LeavesUnder(place, ROOT)

Diagram(place, g1_attached, root_ct, root_k, g1_ct) ==
    [id \in {ROOT, G1} \cup { LeafIds[i] : i \in Leaves } |->
        IF id = ROOT
        THEN BlockNode("System", TRUE, RootChildren(place, g1_attached), root_ct, root_k)
        ELSE IF id = G1
        THEN BlockNode("Group", TRUE, LeavesUnder(place, G1), g1_ct, 2)
        ELSE LET i == CHOOSE j \in Leaves : LeafIds[j] = id
             IN  BlockNode(SheetNames[i], FALSE, <<>>, "series", 2)]

\* k_value of the root: any value a saved file may hold for a K-of-N group,
\* in range or not; the BlockNode default otherwise
RootKs(root_ct) == IF root_ct = "k_of_n" THEN 0..(MaxLeaves + 1) ELSE {2}

NotReturned == [done |-> FALSE, r |-> One, lam |-> LamNum(Zero)]

Init ==
    /\ \/ /\ blocks = <<>>
          /\ root_group = None
       \/ /\ root_group = ROOT
          /\ \E place \in Placements,
                g1_attached \in BOOLEAN,
                root_ct \in ConnectionTypes,
                g1_ct \in ConnectionTypes :
                \E root_k \in RootKs(root_ct) :
                    blocks = Diagram(place, g1_attached, root_ct, root_k, g1_ct)
    /\ sheet_data \in SheetProfiles
    /\ years = 5
    /\ sys_out = NotReturned
    /\ last_op = "load_structure"
    /\ selected_block = None
    /\ raised = None
    /\ gestures = 0
    /\ editor_mission_hours = 5 * 365 * 24
    /\ MathIdle
    /\ RunIdle

\* _on_calculate: the root evaluation
OnCalculate ==
    LET c == calculate_system(blocks, root_group, sheet_data, get_hours(years))
    IN  /\ blocks' = c.blocks
        /\ sys_out' = Returned(c)
        /\ last_op' = "_on_calculate"
        /\ UNCHANGED <<root_group, sheet_data, years, editor_mission_hours, selected_block, raised,
                       gestures, mathVars, runVars>>

\* _calculate_sheets after a component was edited: new sheet data, no evaluation
CalculateSheets ==
    /\ \E p \in SheetProfiles : sheet_data' = p
    /\ last_op' = "_calculate_sheets"
    /\ UNCHANGED <<blocks, root_group, years, editor_mission_hours, sys_out, selected_block, raised,
                   gestures, mathVars, runVars>>

\* _recalculate_all after a settings change: _calculate_sheets, the leaf
\* update over all blocks, then _on_calculate
RecalculateAll ==
    \E y \in YearSettings, p \in SheetProfiles :
        LET c == calculate_system(update_block_data(blocks, p), root_group,
                                  p, get_hours(y))
        IN  /\ years' = y
            /\ sheet_data' = p
            /\ blocks' = c.blocks
            /\ sys_out' = Returned(c)
            /\ last_op' = "_recalculate_all"
            /\ UNCHANGED <<root_group, editor_mission_hours, selected_block, raised, gestures, mathVars, runVars>>

Next == OnCalculate \/ CalculateSheets \/ RecalculateAll

Spec == Init /\ [][Next]_vars

----------------------------------------------------------------------------
(* The same evaluations over a diagram from which one block is gone: the    *)
(* root, the second group or the first sheet block, still named wherever it *)
(* was a child.                                                             *)

DanglingInit ==
    /\ root_group = ROOT
    /\ \E place \in Placements,
          g1_attached \in BOOLEAN,
          root_ct \in ConnectionTypes,
          g1_ct \in ConnectionTypes,
          gone \in {ROOT, G1, LeafIds[1]} :
          \E root_k \in RootKs(root_ct) :
              LET d == Diagram(place, g1_attached, root_ct, root_k, g1_ct)
              IN  blocks = [b \in DOMAIN d \ {gone} |-> d[b]]
    /\ sheet_data \in SheetProfiles
    /\ years = 5
    /\ sys_out = NotReturned
    /\ last_op = "load_structure"
    /\ selected_block = None
    /\ raised = None
    /\ gestures = 0
    /\ editor_mission_hours = 5 * 365 * 24
    /\ MathIdle
    /\ RunIdle

SpecDangling == DanglingInit /\ [][Next]_vars

----------------------------------------------------------------------------
(* The root evaluation run call by call: one frame for each activation of   *)
(* calc, with the index of the child it evaluates next and the values of    *)
(* the children evaluated so far.  Together with the r_k_of_n runs, under   *)
(* the fairness of an interpreter that keeps executing the running call.    *)

CalcFrame(block_id) == [pc |-> "calc", id |-> block_id, i |-> 1, child_rs |-> <<>>]

\* the stack after the innermost activation has returned r to its caller
ReturnTo(stack, r) ==
    IF stack = <<>> THEN stack
    ELSE [stack EXCEPT ![Len(stack)].child_rs = Append(@, r),
                       ![Len(stack)].i = @ + 1]

\* sys_r = calc(self.editor.root_id), over the diagrams of Init
WalkInit ==
    /\ root_group = ROOT
    /\ \E place \in Placements,
          g1_attached \in BOOLEAN,
          root_ct \in ConnectionTypes,
          g1_ct \in ConnectionTypes :
          \E root_k \in RootKs(root_ct) :
              blocks = Diagram(place, g1_attached, root_ct, root_k, g1_ct)
    /\ sheet_data = OtherSheets
    /\ years = 5
    /\ sys_out = NotReturned
    /\ last_op = "_calculate_system"
    /\ selected_block = None
    /\ raised = None
    /\ gestures = 0
    /\ editor_mission_hours = 5 * 365 * 24
    /\ r_list = <<>>
    /\ k_arg = 0
    /\ mpc = "walk"
    /\ res = NoResult
    /\ impl = "none"
    /\ kstack = <<CalcFrame(root_group)>>
    /\ kret = Zero
    /\ evals = <<>>

\* calc(block_id) on an id that is no key of blocks, or on a sheet block
CalcReturn ==
    /\ kstack # <<>>
    /\ Top.pc = "calc"
    /\ Top.id \notin DOMAIN blocks \/ ~blocks[Top.id].is_group
    /\ LET c == calc(blocks, sheet_data, get_hours(years), Top.id)
       IN  /\ blocks' = c.blocks
           /\ kret' = c.r
           /\ kstack' = ReturnTo(Pop, c.r)
    /\ evals' = Append(evals, Top.id)
    /\ UNCHANGED <<impl, mathVars, root_group, sheet_data, years, sys_out, last_op,
                   selected_block, raised, gestures, editor_mission_hours>>

\* the next calc(cid) of the list comprehension of a group
CalcChild ==
    /\ kstack # <<>>
    /\ Top.pc = "calc"
    /\ Top.id \in DOMAIN blocks
    /\ blocks[Top.id].is_group
    /\ Top.i <= Len(blocks[Top.id].children)
    /\ kstack' = Append(kstack, CalcFrame(blocks[Top.id].children[Top.i]))
    /\ UNCHANGED <<impl, kret, evals, mathVars, treeVars>>

\* the comprehension is through: the group's law on child_rs, written to the
\* block and returned
CalcCombine ==
    /\ kstack # <<>>
    /\ Top.pc = "calc"
    /\ Top.id \in DOMAIN blocks
    /\ blocks[Top.id].is_group
    /\ Top.i > Len(blocks[Top.id].children)
    /\ LET b == blocks[Top.id]
           r == IF b.connection_type = "series" THEN r_series(Top.child_rs)
                ELSE IF b.connection_type = "parallel" THEN r_parallel(Top.child_rs)
                ELSE r_k_of_n(Top.child_rs, b.k_value)
       IN  /\ blocks' = [blocks EXCEPT
                           ![Top.id].reliability = r,
                           ![Top.id].lambda_val =
                               lambda_from_reliability(r, get_hours(years))]
           /\ kret' = r
           /\ kstack' = ReturnTo(Pop, r)
    /\ evals' = Append(evals, Top.id)
    /\ UNCHANGED <<impl, mathVars, root_group, sheet_data, years, sys_out, last_op,
                   selected_block, raised, gestures, editor_mission_hours>>

FairInit == RunInit \/ WalkInit

FairNext ==
    \/ KReturnDirectly
    \/ KCallFirst
    \/ KCallSecond
    \/ KCombine
    \/ CalcReturn
    \/ CalcChild
    \/ CalcCombine

\* the interpreter keeps executing the call that is running: weak fairness of
\* FairNext, with ENABLED <<FairNext>>_vars written as the state predicate it
\* equals (an activation is on the stack)
KeepsRunning == []<>(kstack = <<>>) \/ []<><<FairNext>>_vars

SpecFair == FairInit /\ [][FairNext]_vars /\ KeepsRunning

\* the walk ends with the value and the blocks _calculate_system gives
WalkRefinesCalc ==
    (mpc = "walk" /\ kstack = <<>>) =>
        LET c == calculate_system(blocks, root_group, sheet_data, get_hours(years))
        IN  c.sys_r = kret /\ c.blocks = blocks

\* a recursive call of r_k_of_n is on a list one shorter than its caller's,
\* and made only when none of k > n, k < 1, k = 1, k = n holds
EachCallOneShorter ==
    (mpc = "run" /\ Len(kstack') > Len(kstack)) =>
        /\ kstack'[Len(kstack')].n = Top.n - 1
        /\ 1 < Top.k /\ Top.k < Top.n

\* C26: evaluation always terminates: r_k_of_n returns after finitely many
\* recursive calls for every finite list and every integer k (each recursive
\* call has a list one shorter and reaches one of the cases k > n, k < 1,
\* k = 1 or k = n), and the root evaluation returns for every finite tree
\* without cycles.
C26_EvaluationTerminates ==
    /\ [][EachCallOneShorter]_vars
    /\ <>(kstack = <<>>)

\* a run of r_k_of_n that went three calls deep has returned
C26_Witness ==
    /\ mpc = "run"
    /\ kstack = <<>>
    /\ \E i \in 1..Len(evals) : evals[i][1] = Len(r_list) - 2 /\ Len(r_list) >= 4

\* a root evaluation that went through a group below the root has returned
WalkReturned ==
    /\ mpc = "walk"
    /\ kstack = <<>>
    /\ \E i \in 1..Len(evals) : evals[i] = G1

----------------------------------------------------------------------------
(* Claims on the root evaluation, under Spec *)

RECURSIVE ReachFrom(_, _)
\* the ids reachable from the ids S through children lists
ReachFrom(bl, S) ==
    LET more == S \cup UNION { { bl[g].children[i] : i \in 1..Len(bl[g].children) } :
                               g \in { x \in S \cap DOMAIN bl : bl[x].is_group } }
    IN  IF more = S THEN S ELSE ReachFrom(bl, more)

Reachable == IF root_group = None THEN {} ELSE ReachFrom(blocks, {root_group})

Groups(bl) == { g \in DOMAIN bl : bl[g].is_group }

\* how often id is named as a child over all groups
TimesChild(bl, id) ==
    Cardinality({ <<g, i>> \in Groups(bl) \X (1..(MaxLeaves + 1)) :
                    i <= Len(bl[g].children) /\ bl[g].children[i] = id })

\* the root is a group of the diagram, every child exists, no block has two
\* parents or is named twice, and the root is nobody's child
WellFormed ==
    /\ root_group \in Groups(blocks)
    /\ \A g \in Groups(blocks) : \A i \in 1..Len(blocks[g].children) :
          blocks[g].children[i] \in DOMAIN blocks
    /\ \A id \in DOMAIN blocks : TimesChild(blocks, id) <= 1
    /\ TimesChild(blocks, root_group) = 0

\* the reliabilities the children of g hold
HeldByChildren(g) ==
    [i \in 1..Len(blocks[g].children) |-> blocks[blocks[g].children[i]].reliability]

\* the connection law of group g on the values its children hold: the product,
\* one minus the product of the complements, or at least k of n (0 for a k
\* outside 1..n)
ConnectionLaw(g) ==
    LET rs == HeldByChildren(g)
        k  == blocks[g].k_value
    IN  IF blocks[g].connection_type = "series" THEN SubsetProb(rs, 1..Len(rs), 1)
        ELSE IF blocks[g].connection_type = "parallel"
             THEN RSub(One, SubsetProb(rs, {}, 1))
        ELSE IF k < 1 \/ k > Len(rs) THEN Zero
        ELSE AtLeastK(rs, k)

Evaluated == last_op \in {"_on_calculate", "_recalculate_all"}

\* the children of g that are keys of blocks, in order
Present(g) == SelectSeq(blocks[g].children, LAMBDA c : c \in DOMAIN blocks)

\* g names a child that is no key of blocks
HasMissingChild(g) == Len(Present(g)) < Len(blocks[g].children)

\* the reliabilities the present children of g hold
HeldByPresent(g) == [i \in 1..Len(Present(g)) |-> blocks[Present(g)[i]].reliability]

\* C27: when a group's children list names an id that is absent from blocks,
\* or the root id itself is absent, the root evaluation raises no structural
\* error: the missing node contributes reliability 1.0, so a Series parent is
\* unaffected by it while a Parallel parent containing it evaluates to
\* exactly 1.0.
C27_MissingNodeCountsAsOne ==
    Evaluated =>
        /\ sys_out.done
        /\ root_group \notin DOMAIN blocks => sys_out.r = One
        /\ \A g \in Reachable \cap Groups(blocks) :
              HasMissingChild(g) =>
                  /\ blocks[g].connection_type = "series" =>
                        blocks[g].reliability =
                            SubsetProb(HeldByPresent(g), 1..Len(Present(g)), 1)
                  /\ blocks[g].connection_type = "parallel" =>
                        blocks[g].reliability = One

\* a parallel root over a missing sheet block and a group below 1 holds 1,
\* and so does the system
C27_Witness ==
    /\ last_op = "_on_calculate"
    /\ ROOT \in DOMAIN blocks
    /\ blocks[ROOT].connection_type = "parallel"
    /\ blocks[ROOT].children = <<LeafIds[1], G1>>
    /\ LeafIds[1] \notin DOMAIN blocks
    /\ RLt(blocks[G1].reliability, One)
    /\ blocks[ROOT].reliability = One
    /\ sys_out.r = One

\* a series group over a missing sheet block and a present one holds the
\* present one's value
SeriesOverMissing ==
    /\ Evaluated
    /\ G1 \in Reachable \cap DOMAIN blocks
    /\ blocks[G1].connection_type = "series"
    /\ blocks[G1].children = <<LeafIds[1], LeafIds[2]>>
    /\ LeafIds[1] \notin DOMAIN blocks
    /\ RLt(blocks[G1].reliability, One)
    /\ blocks[G1].reliability = blocks[LeafIds[2]].reliability

\* the root is absent and the evaluation has returned 1
RootAbsent ==
    /\ Evaluated
    /\ root_group \notin DOMAIN blocks
    /\ sys_out.r = One

\* C6: after one root evaluation over a well-formed tree every group reachable
\* from the root holds its connection law applied to the reliabilities its
\* children hold and lambda_val = lambda_from_reliability of it at the mission
\* hours, every reachable leaf holds its sheet's reliability and failure rate
\* (1.0 and 0 without sheet data), and the returned value is the root's.
C6_EveryNodeHoldsItsLaw ==
    (Evaluated /\ WellFormed) =>
        /\ \A id \in Reachable :
              IF blocks[id].is_group
              THEN /\ blocks[id].reliability = ConnectionLaw(id)
                   /\ blocks[id].lambda_val =
                        lambda_from_reliability(blocks[id].reliability,
                                                get_hours(years))
              ELSE /\ blocks[id].reliability = sheet_r(sheet_data, blocks[id].name)
                   /\ blocks[id].lambda_val =
                        sheet_lambda(sheet_data, blocks[id].name)
        /\ sys_out.done
        /\ sys_out.r = blocks[root_group].reliability

C6_Witness ==
    /\ last_op = "_on_calculate"
    /\ WellFormed
    /\ blocks[ROOT].connection_type = "k_of_n"
    /\ blocks[ROOT].k_value = 2
    /\ blocks[ROOT].children = <<LeafIds[1], G1>>
    /\ blocks[G1].connection_type = "parallel"
    /\ Len(blocks[G1].children) = 2
    /\ blocks[LeafIds[1]].name \notin DOMAIN sheet_data
    /\ blocks[LeafIds[1]].reliability = One
    /\ RLt(Zero, blocks[G1].reliability)
    /\ RLt(blocks[G1].reliability, One)
    /\ blocks[ROOT].reliability = blocks[G1].reliability
    /\ blocks[ROOT].lambda_val.kind = "neglog"
    /\ sys_out.r = blocks[ROOT].reliability

\* the root is a group over exactly the three sheets of the worked example
ExampleRoot(ct) ==
    /\ Evaluated
    /\ root_group = ROOT
    /\ sheet_data = ExampleSheets
    /\ blocks[ROOT].children = <<LeafIds[1], LeafIds[2], LeafIds[3]>>
    /\ blocks[ROOT].connection_type = ct

\* C7 as amended: three leaves 0.99, 0.98, 0.995 under the root evaluate to
\* 0.965349 as Series, to 0.999999 as Parallel and to 0.999652 as 2-of-3.
C7_WorkedExample ==
    /\ ExampleRoot("series") => sys_out.r = Rat(965349, 1000000)
    /\ ExampleRoot("parallel") => sys_out.r = Rat(999999, 1000000)
    /\ (ExampleRoot("k_of_n") /\ blocks[ROOT].k_value = 2) =>
          sys_out.r = Rat(999652, 1000000)

C7_Witness ==
    /\ ExampleRoot("k_of_n")
    /\ blocks[ROOT].k_value = 2
    /\ last_op = "_on_calculate"
    /\ sys_out.r = Rat(999652, 1000000)
    /\ blocks[ROOT].reliability = Rat(999652, 1000000)

RECURSIVE Truncated(_, _, _)
\* the integer part of (n / d) * 10^places, by long division
Truncated(n, d, places) ==
    IF places = 0 THEN n \div d
    ELSE (n \div d) * (10 ^ places) + Truncated((n % d) * 10, d, places - 1)

\* C7 as stated: Series gives 0.965149..., Parallel 0.999999 and 2-of-3
\* approximately 0.99975.
C7_AsStated ==
    /\ ExampleRoot("series") => Truncated(sys_out.r.n, sys_out.r.d, 6) = 965149
    /\ ExampleRoot("parallel") => sys_out.r = Rat(999999, 1000000)
    /\ (ExampleRoot("k_of_n") /\ blocks[ROOT].k_value = 2) =>
          Truncated(sys_out.r.n, sys_out.r.d, 6) \in 999745..999754

\* what a root evaluation must leave alone in a step
StructureKept ==
    /\ DOMAIN blocks' = DOMAIN blocks
    /\ root_group' = root_group
    /\ \A id \in DOMAIN blocks :
          /\ blocks'[id].name = blocks[id].name
          /\ blocks'[id].is_group = blocks[id].is_group
          /\ blocks'[id].connection_type = blocks[id].connection_type
          /\ blocks'[id].k_value = blocks[id].k_value
          /\ blocks'[id].children = blocks[id].children
    /\ \A id \in DOMAIN blocks \ Reachable :
          /\ blocks'[id].reliability = blocks[id].reliability
          /\ blocks'[id].lambda_val = blocks[id].lambda_val

\* C8: a root evaluation creates and destroys no node and changes only the
\* cached reliability and lambda_val of the nodes it visits: ids, kinds,
\* k_values, children lists, the root id and the cached values of unreachable
\* nodes stay as they were.
C8_EvaluationFrame == [][OnCalculate => StructureKept]_vars

\* an evaluation has run that wrote a reachable group and left alone an
\* unreachable sheet block whose cached values differ from its sheet's
C8_Witness ==
    /\ last_op = "_on_calculate"
    /\ WellFormed
    /\ \E id \in DOMAIN blocks \ Reachable :
          /\ ~blocks[id].is_group
          /\ blocks[id].reliability # sheet_r(sheet_data, blocks[id].name)
    /\ \E g \in Groups(blocks) \ Reachable : blocks[g].children # <<>>
    /\ blocks[ROOT].reliability # One
    /\ blocks[ROOT].children # <<>>

----------------------------------------------------------------------------
(* block_editor.py: the editing operations of BlockEditorCanvas, and the    *)
(* dialog handlers that call them.  The ids add_block and create_group are  *)
(* given are formatted from a count: f"sheet_{n}" and f"__group_{n}__".     *)

\* f"sheet_{n}" for n = 0, 1, ...
SheetIdTable ==
    <<"sheet_0", "sheet_1", "sheet_2", "sheet_3", "sheet_4",
      "sheet_5", "sheet_6", "sheet_7", "sheet_8", "sheet_9">>

\* f"__group_{n}__" for n = 0, 1, ...
GroupIdTable ==
    <<"__group_0__", "__group_1__", "__group_2__", "__group_3__",
      "__group_4__", "__group_5__", "__group_6__">>

\* x in list
InList(s, x) == \E i \in 1..Len(s) : s[i] = x

RECURSIVE list_remove(_, _)
\* list.remove(x): the first occurrence goes
list_remove(s, x) ==
    IF s = <<>> THEN <<>>
    ELSE IF Head(s) = x THEN Tail(s)
    ELSE <<Head(s)>> \o list_remove(Tail(s), x)

\* del blocks[id]
Without(bl, id) == [b \in DOMAIN bl \ {id} |-> bl[b]]

\* blocks[id] = block
With(bl, id, block) ==
    [b \in DOMAIN bl \cup {id} |-> IF b = id THEN block ELSE bl[b]]

\* add_block: the new block, and the root series group when there is no root
add_block(bl, root, block_id, name) ==
    LET bl1 == With(bl, block_id, BlockNode(name, FALSE, <<>>, "series", 2))
    IN  IF root = None
        THEN [blocks |-> With(bl1, ROOT, BlockNode("System", TRUE, <<>>, "series", 2)),
              root_group |-> ROOT]
        ELSE [blocks |-> bl1, root_group |-> root]

\* remove_block, for block_id in blocks
remove_block(bl, block_id) ==
    Without([b \in DOMAIN bl |->
                IF bl[b].is_group /\ InList(bl[b].children, block_id)
                THEN [bl[b] EXCEPT !.children = list_remove(@, block_id)]
                ELSE bl[b]],
            block_id)

RECURSIVE remove_each(_, _, _)
\* for bid in block_ids: if bid in children: children.remove(bid)
remove_each(children, block_ids, i) ==
    IF i > Len(block_ids) THEN children
    ELSE remove_each(list_remove(children, block_ids[i]), block_ids, i + 1)

\* the name create_group gives the group; "K-of-N" stands for
\* f"{k_value}-of-{len(block_ids)}", which is no sheet path either
group_name(connection_type) ==
    IF connection_type = "series" THEN "Series"
    ELSE IF connection_type = "parallel" THEN "Parallel"
    ELSE "K-of-N"

\* create_group, for two or more block_ids
create_group(bl, root, block_ids, connection_type, k_value) ==
    LET group_id == GroupIdTable[Cardinality({ b \in DOMAIN bl : bl[b].is_group }) + 1]
        bl1 == With(bl, group_id,
                    BlockNode(group_name(connection_type), TRUE, block_ids,
                              connection_type, k_value))
    IN  IF root \in DOMAIN bl1
        THEN [bl1 EXCEPT ![root].children =
                  Append(remove_each(@, block_ids, 1), group_id)]
        ELSE bl1

\* ungroup, for a group_id in blocks that is a group: the children go to the
\* first group that holds group_id
ungroup(bl, group_id) ==
    LET children == bl[group_id].children
        parents  == { b \in DOMAIN bl :
                        bl[b].is_group /\ InList(bl[b].children, group_id) }
    IN  IF parents = {} THEN Without(bl, group_id)
        ELSE LET parent_id == CHOOSE b \in parents : TRUE
             IN  Without([bl EXCEPT ![parent_id].children =
                              list_remove(@, group_id) \o children],
                         group_id)

\* _show_group_properties after OK: sel is the choice made, k the value
\* entered in the K dialog, or 0 when that dialog was cancelled
show_group_properties(bl, group_id, sel, k) ==
    IF sel = 0 THEN [bl EXCEPT ![group_id].connection_type = "series"]
    ELSE IF sel = 1 THEN [bl EXCEPT ![group_id].connection_type = "parallel"]
    ELSE [bl EXCEPT ![group_id].connection_type = "k_of_n",
                    ![group_id].k_value = IF k = 0 THEN @ ELSE k]

\* the fields load_structure reads without a default
RequiredFields == {"name", "display_name", "x", "y", "is_group"}

\* load_structure(data): blocks.clear(), then one block per entry of
\* data["blocks"] in file order; an entry without a required field raises
\* KeyError, which leaves the blocks loaded so far, the old root and the old
\* mission_hours
load_structure(root, hours, data) ==
    LET entries == data.blocks
        bad     == { i \in 1..Len(entries) : ~(RequiredFields \subseteq DOMAIN entries[i][2]) }
        upto    == IF bad = {} THEN Len(entries)
                   ELSE (CHOOSE i \in bad : \A j \in bad : i <= j) - 1
        loaded  == [bid \in { entries[i][1] : i \in 1..upto } |->
                      LET bdata == entries[CHOOSE i \in 1..upto : entries[i][1] = bid][2]
                      IN  BlockNode(bdata["name"], bdata["is_group"],
                                    Get(bdata, "children", <<>>),
                                    Get(bdata, "connection_type", "series"),
                                    Get(bdata, "k_value", 2))]
    IN  IF bad = {}
        THEN [blocks |-> loaded, root_group |-> Get(data, "root", None),
              mission_hours |-> Get(data, "mission_hours", 5 * 365 * 24),
              raised |-> None]
        ELSE [blocks |-> loaded, root_group |-> root, mission_hours |-> hours,
              raised |-> "KeyError"]

----------------------------------------------------------------------------
(* The editor at work: the dialog with a parsed project, an empty canvas,   *)
(* and the user's gestures.  Every handler that   *)
(* changes the structure ends in _notify_structure_change, which the dialog *)
(* binds to _on_calculate.                                                  *)

\* the sheets the sheet panel offers
SheetPaths == { SheetNames[i] : i \in 2..(MaxSheets + 1) }

\* the position of a block id in the id table, 0 for other ids
SheetNo(id) ==
    IF \E i \in 1..Len(SheetIdTable) : SheetIdTable[i] = id
    THEN CHOOSE i \in 1..Len(SheetIdTable) : SheetIdTable[i] = id
    ELSE 0

RECURSIVE in_id_order(_)
\* the ids of a set as a list, in the order the sheet blocks were numbered
in_id_order(S) ==
    IF S = {} THEN <<>>
    ELSE LET first == CHOOSE a \in S : \A b \in S : SheetNo(a) <= SheetNo(b)
         IN  <<first>> \o in_id_order(S \ {first})

\* the longest children list among the blocks
LongestChildren(bl) ==
    IF DOMAIN bl = {} THEN 0
    ELSE LET b == CHOOSE a \in DOMAIN bl :
                    \A c \in DOMAIN bl : Len(bl[c].children) <= Len(bl[a].children)
         IN  Len(bl[b].children)

\* _notify_structure_change: the dialog's _on_calculate over the new structure
NotifyStructureChange(bl, root) ==
    LET c == calculate_system(bl, root, sheet_data, get_hours(years))
    IN  /\ blocks' = c.blocks
        /\ sys_out' = Returned(c)

\* one more handler has run
Gesture ==
    /\ gestures < MaxGestures
    /\ gestures' = gestures + 1

EditInit ==
    /\ blocks = <<>>
    /\ root_group = None
    /\ selected_block = None
    /\ sheet_data = OtherSheets
    /\ years = 5
    /\ sys_out = NotReturned
    /\ last_op = "__init__"
    /\ raised = None
    /\ gestures = 0
    /\ editor_mission_hours = 5 * 365 * 24
    /\ MathIdle
    /\ RunIdle

\* _add_sheet(path): nothing when a block of that name exists; else add_block
\* under the id f"sheet_{len(blocks)}" and the sheet's values written to it
AddSheet ==
    \E path \in SheetPaths :
        /\ Gesture
        /\ Cardinality(DOMAIN blocks) < Len(SheetIdTable)
        /\ IF \E b \in DOMAIN blocks : blocks[b].name = path
           THEN UNCHANGED <<blocks, root_group>>
           ELSE LET block_id == SheetIdTable[Cardinality(DOMAIN blocks) + 1]
                    a == add_block(blocks, root_group, block_id, path)
                IN  /\ blocks' = [a.blocks EXCEPT
                                    ![block_id].reliability = sheet_r(sheet_data, path),
                                    ![block_id].lambda_val = sheet_lambda(sheet_data, path)]
                    /\ root_group' = a.root_group
        /\ last_op' = "_add_sheet"
        /\ raised' = None
        /\ UNCHANGED <<selected_block, sheet_data, years, editor_mission_hours, sys_out, mathVars, runVars>>

\* on_left_down: the press selects the block under the pointer (dragging
\* starts), or no block (a selection rectangle starts)
LeftDown ==
    \E block_id \in DOMAIN blocks \cup {None} :
        /\ Gesture
        /\ selected_block' = block_id
        /\ last_op' = "on_left_down"
        /\ raised' = None
        /\ UNCHANGED <<blocks, root_group, sheet_data, years, editor_mission_hours, sys_out,
                       mathVars, runVars>>

\* on_left_up after that press: a drag ends in _notify_structure_change; a
\* selection rectangle over two or more sheet blocks opens _show_group_menu,
\* where the user picks a connection (and k within 1..len) or dismisses it
LeftUp ==
    /\ Gesture
    /\ last_op = "on_left_down"
    /\ IF selected_block # None
       THEN NotifyStructureChange(blocks, root_group)
       ELSE \/ UNCHANGED <<blocks, sys_out>>
            \/ /\ Cardinality({ b \in DOMAIN blocks : blocks[b].is_group }) < MaxGroups
               /\ \E S \in SUBSET { b \in DOMAIN blocks : ~blocks[b].is_group } :
                    /\ Cardinality(S) >= 2
                    /\ \E connection_type \in ConnectionTypes :
                         \E k \in IF connection_type = "k_of_n"
                                  THEN 1..Cardinality(S) ELSE {2} :
                            LET bl == create_group(blocks, root_group,
                                                   in_id_order(S), connection_type, k)
                            IN  /\ LongestChildren(bl) <= MaxChildren
                                /\ NotifyStructureChange(bl, root_group)
    /\ last_op' = "on_left_up"
    /\ raised' = None
    /\ UNCHANGED <<root_group, selected_block, sheet_data, years, editor_mission_hours, mathVars, runVars>>

\* on_key_down with the Delete key: a selected group is dissolved, any other
\* selected block removed
KeyDelete ==
    /\ Gesture
    /\ selected_block # None
    /\ IF selected_block \in DOMAIN blocks /\ blocks[selected_block].is_group
       THEN /\ LongestChildren(ungroup(blocks, selected_block)) <= MaxChildren
            /\ NotifyStructureChange(ungroup(blocks, selected_block), root_group)
            /\ UNCHANGED selected_block
       ELSE IF selected_block \in DOMAIN blocks
       THEN /\ NotifyStructureChange(remove_block(blocks, selected_block), root_group)
            /\ selected_block' = None
       ELSE UNCHANGED <<blocks, sys_out, selected_block>>
    /\ last_op' = "on_key_down"
    /\ raised' = None
    /\ UNCHANGED <<root_group, sheet_data, years, editor_mission_hours, mathVars, runVars>>

\* on_double_click on a group: _show_group_properties, confirmed with OK; the
\* K dialog offers 1..len(children) and may be cancelled (k = 0), which is
\* the one outcome taken for a group without children
DoubleClick ==
    /\ Gesture
    /\ \E group_id \in { b \in DOMAIN blocks : blocks[b].is_group } :
        \E sel \in 0..2 :
            \E k \in IF sel = 2
                     THEN 0..Len(blocks[group_id].children)
                     ELSE {0} :
                /\ NotifyStructureChange(
                       show_group_properties(blocks, group_id, sel, k), root_group)
                /\ last_op' = "on_double_click"
                /\ raised' = None
                /\ UNCHANGED <<root_group, selected_block, sheet_data, years, editor_mission_hours,
                               mathVars, runVars>>

\* _on_open: editor.clear(), then the project's sheets are parsed again
Clear ==
    /\ Gesture
    /\ blocks' = <<>>
    /\ root_group' = None
    /\ selected_block' = None
    /\ last_op' = "clear"
    /\ raised' = None
    /\ UNCHANGED <<sheet_data, years, editor_mission_hours, sys_out, mathVars, runVars>>

EditNext == AddSheet \/ LeftDown \/ LeftUp \/ KeyDelete \/ DoubleClick \/ Clear

SpecEdit == EditInit /\ [][EditNext]_vars

----------------------------------------------------------------------------
(* Loading a saved configuration into the editor at work.                   *)

\* every id a block can have, in one fixed order
IdOrder == <<ROOT>> \o GroupIdTable \o SheetIdTable

\* the ids of the blocks as a list
id_list(bl) == SelectSeq(IdOrder, LAMBDA id : id \in DOMAIN bl)

\* get_structure writing no k_value
get_structure_without_k(bl, root, hours) ==
    [blocks |-> [i \in 1..Len(id_list(bl)) |->
                    LET b == bl[id_list(bl)[i]]
                    IN  <<id_list(bl)[i],
                          [name |-> b.name, display_name |-> b.name, x |-> 0, y |-> 0,
                           is_group |-> b.is_group, children |-> b.children,
                           connection_type |-> b.connection_type]>>],
     root |-> root,
     mission_hours |-> hours]

\* get_structure: what the editor saves
get_structure(bl, root, hours) ==
    [blocks |-> [i \in 1..Len(id_list(bl)) |->
                    LET b == bl[id_list(bl)[i]]
                    IN  <<id_list(bl)[i],
                          [name |-> b.name, display_name |-> b.name, x |-> 0, y |-> 0,
                           is_group |-> b.is_group, children |-> b.children,
                           connection_type |-> b.connection_type,
                           k_value |-> b.k_value]>>],
     root |-> root,
     mission_hours |-> hours]

\* the same topology with {kind, children, k} for each node and no more
minimal_structure(bl, root) ==
    [blocks |-> [i \in 1..Len(id_list(bl)) |->
                    LET b == bl[id_list(bl)[i]]
                    IN  <<id_list(bl)[i],
                          [kind |-> IF b.is_group THEN b.connection_type ELSE "leaf",
                           children |-> b.children,
                           k |-> b.k_value]>>],
     root |-> root,
     mission_hours |-> get_hours(5)]

\* a saved diagram: the root in series over a 2-of-2 group of two sheet blocks
SavedBlocks ==
    [id \in {ROOT, G1, SheetIdTable[1], SheetIdTable[3]} |->
        IF id = ROOT THEN BlockNode("System", TRUE, <<G1>>, "series", 2)
        ELSE IF id = G1
        THEN BlockNode("K-of-N", TRUE, <<SheetIdTable[1], SheetIdTable[3]>>, "k_of_n", 2)
        ELSE IF id = SheetIdTable[1] THEN BlockNode(SheetNames[2], FALSE, <<>>, "series", 2)
        ELSE BlockNode(SheetNames[3], FALSE, <<>>, "series", 2)]

\* the files the user may pick in _on_load_config
StructureFiles ==
    {get_structure(SavedBlocks, ROOT, 10 * 365 * 24),
     minimal_structure(SavedBlocks, ROOT)}

\* _on_load_config: load_structure, then _recalculate_all; an exception
\* raised on the way is shown in a message box and the handler ends
LoadConfig ==
    /\ Gesture
    /\ \E data \in StructureFiles :
        LET l == load_structure(root_group, editor_mission_hours, data)
            c == calculate_system(update_block_data(l.blocks, sheet_data),
                                  l.root_group, sheet_data, get_hours(5))
        IN  /\ root_group' = l.root_group
            /\ editor_mission_hours' = l.mission_hours
            /\ raised' = l.raised
            /\ IF l.raised = None
               THEN /\ blocks' = c.blocks
                    /\ sys_out' = Returned(c)
               ELSE /\ blocks' = l.blocks
                    /\ UNCHANGED sys_out
    /\ years' = 5
    /\ last_op' = "_on_load_config"
    /\ UNCHANGED <<selected_block, sheet_data, mathVars, runVars>>

\* the structure is saved and loaded again, load_structure(get_structure()),
\* as the last step of a run
SaveAndLoad ==
    /\ gestures < MaxGestures
    /\ gestures' = MaxGestures
    /\ LET l == load_structure(root_group, editor_mission_hours,
                               get_structure(blocks, root_group, editor_mission_hours))
       IN  /\ blocks' = l.blocks
           /\ root_group' = l.root_group
           /\ editor_mission_hours' = l.mission_hours
           /\ raised' = l.raised
    /\ last_op' = "load_structure"
    /\ UNCHANGED <<selected_block, sheet_data, years, sys_out, mathVars, runVars>>

LoadNext == EditNext \/ LoadConfig \/ SaveAndLoad

SpecLoad == EditInit /\ [][LoadNext]_vars

----------------------------------------------------------------------------
(* The editor's operations called one after the other on an empty canvas:    *)
(* add_block through _add_sheet, create_group over sheet blocks, ungroup and *)
(* remove_block on any id, and the click that selects a block.               *)

\* an id that is never a key of blocks
UnknownId == "sheet_x"

\* create_group(block_ids, connection_type, k_value) over two or more blocks
\* that are not groups
CallCreateGroup ==
    /\ Gesture
    /\ Cardinality({ b \in DOMAIN blocks : blocks[b].is_group }) < MaxGroups
    /\ \E S \in SUBSET { b \in DOMAIN blocks : ~blocks[b].is_group } :
         /\ Cardinality(S) >= 2
         /\ \E connection_type \in ConnectionTypes :
              \E k \in IF connection_type = "k_of_n" THEN 1..Cardinality(S) ELSE {2} :
                 LET bl == create_group(blocks, root_group, in_id_order(S),
                                        connection_type, k)
                 IN  /\ LongestChildren(bl) <= MaxChildren
                     /\ NotifyStructureChange(bl, root_group)
    /\ last_op' = "create_group"
    /\ raised' = None
    /\ UNCHANGED <<root_group, selected_block, sheet_data, years,
                   editor_mission_hours, mathVars, runVars>>

\* ungroup(group_id): returns at once for an id that is no key of blocks or
\* no group
CallUngroup(group_id) ==
    /\ Gesture
    /\ IF group_id \notin DOMAIN blocks \/ ~blocks[group_id].is_group
       THEN UNCHANGED <<blocks, sys_out>>
       ELSE /\ LongestChildren(ungroup(blocks, group_id)) <= MaxChildren
            /\ NotifyStructureChange(ungroup(blocks, group_id), root_group)
    /\ last_op' = "ungroup"
    /\ raised' = None
    /\ UNCHANGED <<root_group, selected_block, sheet_data, years,
                   editor_mission_hours, mathVars, runVars>>

\* remove_block(block_id): nothing for an id that is no key of blocks
CallRemoveBlock(block_id) ==
    /\ Gesture
    /\ IF block_id \in DOMAIN blocks
       THEN /\ NotifyStructureChange(remove_block(blocks, block_id), root_group)
            /\ selected_block' = IF selected_block = block_id THEN None
                                 ELSE selected_block
       ELSE UNCHANGED <<blocks, sys_out, selected_block>>
    /\ last_op' = "remove_block"
    /\ raised' = None
    /\ UNCHANGED <<root_group, sheet_data, years, editor_mission_hours,
                   mathVars, runVars>>

OpsNext ==
    \/ AddSheet
    \/ LeftDown
    \/ CallCreateGroup
    \/ \E id \in DOMAIN blocks \cup {UnknownId} : CallUngroup(id)
    \/ \E id \in DOMAIN blocks \cup {UnknownId} : CallRemoveBlock(id)

SpecOps == EditInit /\ [][OpsNext]_vars

----------------------------------------------------------------------------
(* Claims on the editor, under SpecEdit and SpecLoad *)

\* the groups that name id as a child
Parents(bl, id) == { g \in Groups(bl) : InList(bl[g].children, id) }

\* the ids named in some children list
Children(bl) ==
    UNION { { bl[g].children[i] : i \in 1..Len(bl[g].children) } : g \in Groups(bl) }

\* no children list names an id twice
NoDuplicateChild(bl) ==
    \A g \in Groups(bl) : \A i, j \in 1..Len(bl[g].children) :
        bl[g].children[i] = bl[g].children[j] => i = j

\* C14: after any sequence of editor operations every group whose connection
\* is K-of-N has 1 <= k_value <= len(children).
C14_KWithinChildren ==
    \A g \in Groups(blocks) :
        blocks[g].connection_type = "k_of_n" =>
            /\ 1 <= blocks[g].k_value
            /\ blocks[g].k_value <= Len(blocks[g].children)

\* the step is a release that closed a selection rectangle and made a group
GroupCreated ==
    /\ last_op = "on_left_down"
    /\ last_op' = "on_left_up"
    /\ selected_block = None
    /\ blocks' # blocks

\* C15: no node id is ever repeated: every create_group gives the group an id
\* that is not yet a key of blocks, so that no node is overwritten, and no
\* children list names an id twice.
C15_NoIdRepeated ==
    [][/\ GroupCreated =>
            /\ DOMAIN blocks' # DOMAIN blocks
            /\ \A id \in DOMAIN blocks : blocks'[id].is_group = blocks[id].is_group
       /\ NoDuplicateChild(blocks')]_vars

\* C16: the topology stays a tree: no id is a child of more than one group,
\* no children list names an id twice, and no node is its own ancestor.
C16_TopologyIsTree ==
    /\ \A id \in Children(blocks) : Cardinality(Parents(blocks, id)) <= 1
    /\ NoDuplicateChild(blocks)
    /\ \A g \in Groups(blocks) :
          g \notin ReachFrom(blocks, { blocks[g].children[i] :
                                         i \in 1..Len(blocks[g].children) })

\* C17: there is exactly one root: root_group is None and blocks is empty, or
\* root_group names a block that is a group and no group's child.
C17_ExactlyOneRoot ==
    \/ /\ root_group = None
       /\ DOMAIN blocks = {}
    \/ /\ root_group \in Groups(blocks)
       /\ Parents(blocks, root_group) = {}

\* the structure fields of the blocks: all but the cached values
Topology(bl) ==
    [id \in DOMAIN bl |->
        [is_group |-> bl[id].is_group, children |-> bl[id].children,
         connection_type |-> bl[id].connection_type, k_value |-> bl[id].k_value]]

\* C18: loading succeeds for every saved file, the one that holds only
\* {kind, children, k} for each node included: load_structure raises nothing
\* and the editor holds the saved topology and root.
C18_MinimalShapeLoads ==
    last_op = "_on_load_config" =>
        /\ raised = None
        /\ root_group = ROOT
        /\ Topology(blocks) = Topology(SavedBlocks)

\* the fields of a block the saved structure is to carry
Persisted(b) ==
    [name |-> b.name, is_group |-> b.is_group, children |-> b.children,
     connection_type |-> b.connection_type, k_value |-> b.k_value]

\* C23: round trip of the persisted topology: for every editor state,
\* load_structure(get_structure()) restores the same set of node ids and for
\* each node the same name, is_group flag, connection kind, k_value and
\* ordered children list, together with the same root id and mission_hours.
C23_RoundTripRestores ==
    [][last_op' = "load_structure" =>
          /\ raised' = None
          /\ DOMAIN blocks' = DOMAIN blocks
          /\ \A id \in DOMAIN blocks : Persisted(blocks'[id]) = Persisted(blocks[id])
          /\ root_group' = root_group
          /\ editor_mission_hours' = editor_mission_hours]_vars

\* a diagram with a 1-of-2 group and a mission time that is not the default
\* has been saved and loaded
C23_Witness ==
    /\ last_op = "load_structure"
    /\ editor_mission_hours # 5 * 365 * 24
    /\ root_group = ROOT
    /\ \E g \in Groups(blocks) :
          /\ blocks[g].connection_type = "k_of_n"
          /\ blocks[g].k_value = 1
          /\ Len(blocks[g].children) = 2

\* a children list without id, the other entries in their order
AllRemoved(s, id) == SelectSeq(s, LAMBDA c : c # id)

\* what remove_block(id) is to leave: id is no key and no child and not
\* selected, every other node as it was but for id in its children
RemoveFrame(id) ==
    /\ DOMAIN blocks' = DOMAIN blocks \ {id}
    /\ \A g \in Groups(blocks') : ~InList(blocks'[g].children, id)
    /\ selected_block' # id
    /\ root_group' = root_group
    /\ \A b \in DOMAIN blocks' :
          Persisted(blocks'[b]) =
              [Persisted(blocks[b]) EXCEPT !.children = AllRemoved(@, id)]

\* the call left the editor as it was
NothingChanged ==
    /\ blocks' = blocks
    /\ root_group' = root_group
    /\ selected_block' = selected_block
    /\ sys_out' = sys_out

\* C24: after remove_block(id) for an id in blocks, id is no longer a key of
\* blocks, no group's children list contains id (no dangling reference is
\* left), selected_block is not id, and every other node and the relative
\* order of the remaining children are unchanged; remove_block of an id not
\* in blocks changes nothing.
C24_RemoveBlockFrame ==
    [][\A id \in DOMAIN blocks \cup {UnknownId} :
          CallRemoveBlock(id) =>
              IF id \in DOMAIN blocks THEN RemoveFrame(id) ELSE NothingChanged]_vars

\* C24 holds from every state in which no children list names an id twice
RemoveFrameWithoutDuplicates ==
    [][\A id \in DOMAIN blocks \cup {UnknownId} :
          CallRemoveBlock(id) /\ NoDuplicateChild(blocks) =>
              IF id \in DOMAIN blocks THEN RemoveFrame(id) ELSE NothingChanged]_vars

\* how often id occurs in the list
TimesIn(s, id) == Cardinality({ i \in 1..Len(s) : s[i] = id })

\* the blocks below p that are not groups
LeavesBelow(bl, p) == { b \in ReachFrom(bl, {p}) \cap DOMAIN bl : ~bl[b].is_group }

\* what ungroup(g) is to leave for the parent p of g
ChildrenReturned(g, p) ==
    /\ g \notin DOMAIN blocks'
    /\ ~InList(blocks'[p].children, g)
    /\ \A i \in 1..Len(blocks[g].children) :
          TimesIn(blocks'[p].children, blocks[g].children[i]) = 1
    /\ LeavesBelow(blocks', p) = LeavesBelow(blocks, p)

\* C25: ungroup(g) dissolves a group and returns its children to the parent:
\* when g is a group that is a child of p, afterwards g is absent from blocks
\* and from p.children, every former child of g is in p.children exactly
\* once, and the set of leaves descending from p is as before; ungroup of an
\* unknown id or of a block that is no group changes nothing.
C25_UngroupReturnsChildren ==
    [][\A g \in DOMAIN blocks \cup {UnknownId} :
          CallUngroup(g) =>
              IF g \in Groups(blocks)
              THEN \A p \in Parents(blocks, g) : ChildrenReturned(g, p)
              ELSE NothingChanged]_vars

\* the topology is a tree, as C16 has it
IsTree(bl) ==
    /\ \A id \in Children(bl) : Cardinality(Parents(bl, id)) <= 1
    /\ NoDuplicateChild(bl)

\* C25 holds from every state whose topology is a tree
UngroupReturnsChildrenOnTrees ==
    [][\A g \in DOMAIN blocks \cup {UnknownId} :
          CallUngroup(g) /\ IsTree(blocks) =>
              IF g \in Groups(blocks)
              THEN \A p \in Parents(blocks, g) : ChildrenReturned(g, p)
              ELSE NothingChanged]_vars

\* C28: after any sequence of add_block, create_group, ungroup and
\* remove_block from an empty canvas, every block of blocks that is no group
\* is a descendant of the root group, so that the reliability of every sheet
\* placed on the diagram enters the system reliability computed at the root.
C28_EverySheetUnderRoot ==
    \A b \in DOMAIN blocks : ~blocks[b].is_group => b \in Reachable

\* the blocks are as a root evaluation leaves them
JustEvaluated ==
    /\ sys_out.done
    /\ root_group # None
    /\ calculate_system(blocks, root_group, sheet_data, get_hours(years)).blocks = blocks

\* a failure rate that is a finite number >= 0
FiniteNonNegative(lam) ==
    \/ lam.kind = "num" /\ RLeq(Zero, lam.v)
    \/ lam.kind = "negzero"
    \/ lam.kind = "neglog" /\ RLt(Zero, lam.v) /\ RLeq(lam.v, One)

\* C19: after a root evaluation in which every leaf reliability lies in (0,1],
\* every node holds a reliability in (0,1] and a finite failure rate >= 0.
C19_ValuesInRange ==
    (/\ JustEvaluated
     /\ \A id \in DOMAIN blocks \ Groups(blocks) :
           RLt(Zero, blocks[id].reliability) /\ RLeq(blocks[id].reliability, One))
    => \A id \in DOMAIN blocks :
           /\ RLt(Zero, blocks[id].reliability)
           /\ RLeq(blocks[id].reliability, One)
           /\ FiniteNonNegative(blocks[id].lambda_val)

----------------------------------------------------------------------------
(* Claims on evaluating sibling subtrees apart, under Spec *)

\* the blocks an evaluator started on block id can visit
Footprint(bl, id) == ReachFrom(bl, {id}) \cap DOMAIN bl

\* the blocks that differ between before and after
Written(before, after) == { id \in DOMAIN before : after[id] # before[id] }

\* the connection law as calc applies it to the children's values
combine(b, child_rs) ==
    IF b.connection_type = "series" THEN r_series(child_rs)
    ELSE IF b.connection_type = "parallel" THEN r_parallel(child_rs)
    ELSE r_k_of_n(child_rs, b.k_value)

RECURSIVE fork_join(_, _, _, _)
\* block_id evaluated with one evaluator for each child subtree: every
\* evaluator starts from the same blocks bl and sees no write of another, the
\* parent joins them, takes each subtree's blocks from its evaluator and
\* combines the values returned, in the order of the children list
fork_join(bl, sd, hours, block_id) ==
    IF block_id \notin DOMAIN bl THEN [blocks |-> bl, r |-> One]
    ELSE LET b == bl[block_id]
         IN  IF ~b.is_group THEN calc(bl, sd, hours, block_id)
             ELSE LET branch == [i \in 1..Len(b.children) |->
                                    fork_join(bl, sd, hours, b.children[i])]
                      owner(id) == { i \in 1..Len(b.children) :
                                       id \in Footprint(bl, b.children[i]) }
                      merged == [id \in DOMAIN bl |->
                                    IF owner(id) = {} THEN bl[id]
                                    ELSE branch[CHOOSE i \in owner(id) : TRUE].blocks[id]]
                      r == combine(b, [i \in 1..Len(b.children) |-> branch[i].r])
                  IN  [blocks |-> [merged EXCEPT
                                     ![block_id].reliability = r,
                                     ![block_id].lambda_val =
                                         lambda_from_reliability(r, hours)],
                       r |-> r]

\* for every two children of every group under the root: their evaluators
\* visit no common block, each writes only blocks of its own subtree, and
\* each returns and writes the same whether it runs before or after the other
SiblingsIndependent(bl, root, sd, hours) ==
    \A g \in Groups(bl) \cap ReachFrom(bl, {root}) :
        \A i, j \in 1..Len(bl[g].children) :
            i # j =>
                LET ci == bl[g].children[i]
                    cj == bl[g].children[j]
                    alone == calc(bl, sd, hours, ci)
                    after == calc(calc(bl, sd, hours, cj).blocks, sd, hours, ci)
                IN  /\ Footprint(bl, ci) \cap Footprint(bl, cj) = {}
                    /\ Written(bl, alone.blocks) \subseteq Footprint(bl, ci)
                    /\ after.r = alone.r
                    /\ \A id \in Footprint(bl, ci) : after.blocks[id] = alone.blocks[id]
                    /\ after.blocks =
                         calc(alone.blocks, sd, hours, cj).blocks

====
